---- MODULE Spec2Model ----
(***************************************************************************)
(* EC2S: registry / sparse-set pools / group / view, and the job system.   *)
(* Entities are records [gen, idx] standing for the 64-bit handle          *)
(* (generation slot in the high half, sparse index in the low half).       *)
(* Dense positions are 0-based as in the code; TLA+ sequences are 1-based, *)
(* so position i of a vector v is v[i + 1].                                *)
(***************************************************************************)
EXTENDS Integers, Sequences, FiniteSets, TLC

\* ---------------------------------------------------------------- bounds
MaxIndex == 2
\* number of sparse indices the registry may hand out (mNextEntity < MaxIndex)
MaxGen == 1
\* highest generation a recycled handle may reach
MaxFreed == 2
\* longest free queue explored
MaxOps == 7
\* number of registry operations in one explored history
NumWorkers == 2
\* worker threads of the pool
MaxJobs == 3
\* Job objects that can be allocated at the same time (heap addresses)
MaxCreated == 4
\* Job objects created in one explored history
ArenaBytes == 320
\* byteSize of the buffer given to TLSFAllocator
MaxTlsfOps == 6
\* number of TLSF calls in one explored history
kBlockSize == 4
\* template argument of ArenaAllocator (size of a chained block; 256 by default)
MaxArenaOps == 6
\* number of ArenaAllocator calls in one explored history
MaxRange == 3
\* longest side end - start of the ranges given to parallelFor and its variants
MaxElems == 2
\* number of entities in the registry of one thread that iterates a view
MaxAppOps == 5
\* number of Application calls (init, update, changeState) in one explored history

Types == {"A", "B", "C"}
GroupTypes == <<"A", "B">>
Values == {1, 2}
kTombstone == -1
NoValue == {}

Handles == [gen : 0 .. MaxGen, idx : 0 .. (MaxIndex - 1)]

\* ---------------------------------------------------------------- state
VARIABLES
    mNextEntity,      \* Registry::mNextEntity
    mFreedEntities,   \* Registry::mFreedEntities (FIFO)
    pools,            \* Registry::mComponentArrayMap: type -> sparse set
    group,            \* the live Group (if any) and Registry::mpGroupMap
    ret,              \* {e}: e is the value returned by the last create()
    lastOp,           \* name of the last operation
    visited,          \* entities the last view.each invoked the callback with
    viewI, viewX,     \* include / exclude lists of the last view
    viewT,            \* the Target list of the last view's each<Target...>, if given
    live,             \* history: handles created and not destroyed
    returned,         \* history: every handle create() has returned
    destroyed,        \* history: handles destroyed while live
    comp,             \* history: comp[T][e] = {v}, v the value last stored for e, or {}
    ub,               \* an out-of-range vector access has happened (undefined behaviour)
    lastSort,         \* history: type, predicate and result of the last call if it was sort
    lastAdd,          \* history: type, entity and the pools before the last add, kept while
                      \* the last call is that add or the remove of the same component
    blank,            \* types whose entry of mComponentArrayMap is an empty StackAny
    lastGet,          \* history: type, entity and outcome of the last call if it was get
    lastSwap,         \* history: type, entities and the pool before the last call if it
                      \* was a swap on a pool
    lastRemove,       \* history: type, entity, pools and group before the last call if it
                      \* was a remove that is followed up
    ops               \* history: number of registry operations performed

regVars == <<mNextEntity, mFreedEntities, pools, group, ret, lastOp, visited,
             viewI, viewX, viewT, live, returned, destroyed, comp, ub, lastSort, lastAdd,
             blank, lastGet, lastSwap, lastRemove, ops>>

\* job system (ThreadPool)
VARIABLES
    heap,             \* Job objects by address: the fields of Job, or free storage
    mpJobHead,        \* ThreadPool::mpJobHead (NULL is 0)
    mRemainingJobNum, \* ThreadPool::mRemainingJobNum
    mpSubmittedJobs,  \* ThreadPool::mpSubmittedJobs (a set of Job addresses)
    mStop,            \* ThreadPool::mStop (the pool is running: stop() is not called)
    wk,               \* per worker thread: position in ThreadPool::worker, pJob, child index
    mainPc,           \* position of the submitting thread: "idle", or inside wait()
    nextId,           \* history: number of Job objects created so far
    parents,          \* history: parents[j] = the jobs j was made a child of
    submitted,        \* history: jobs submitted, or reached as a child of a submitted job
    started,          \* history: jobs whose callable has been entered
    execs,            \* history: execs[j] = number of times j's callable has run to its return
    owed,             \* history: the jobs the current / last wait() has to see finished
    lastEvent,        \* history: name of the last job-system step
    restarts,         \* history: whether restart() was called (n = 1), and the jobs submitted
                      \* before that call
    pf                \* the current / last call of parallelFor or one of its variants: its
                      \* arguments, loop variables, and per submitted job the calls of f it makes

jobVars == <<heap, mpJobHead, mRemainingJobNum, mpSubmittedJobs, mStop, wk, mainPc,
             nextId, parents, submitted, started, execs, owed, lastEvent, restarts,
             pf>>

\* allocators
VARIABLES
    tl,               \* TLSFAllocator: block headers and end tags in the buffer, mBlockArray, mAllFLI
    tRet,             \* history: result of the last TLSF call
    tLive,            \* history: blocks handed out by allocate and not yet deallocated
    tFreed,           \* history: [addr, size] of the blocks deallocated since the last allocate
    tLast,            \* history: the last TLSF call
    tFailed,          \* history: some allocate has returned nullptr
    tSeen,            \* history: [addr, len] of the neighbours' size tag and headers that
                      \* the last deallocate inspected
    tOps              \* history: number of TLSF calls so far

tlsfVars == <<tl, tRet, tLive, tFreed, tLast, tFailed, tSeen, tOps>>

VARIABLES
    ar,               \* ArenaAllocator: the block chain (head first), mpExternalMemory,
                      \* mExternalMemoryCurrentSize, and whether a null MemoryBlock was used
    aRet,             \* history: address returned by the last allocate, or NoAddr
    aLast,            \* history: the last ArenaAllocator call
    aFirst,           \* history: {[n, addr]} of the first allocate after construction
    aHist,            \* history: sizes allocated since construction / the last reset
    aPrevHist,        \* history: sizes allocated in the cycle before the last reset
    aBlocksAtReset,   \* history: length of the chain when reset was last called
    aResets,          \* history: number of reset calls
    aOom,             \* history: an operator new has failed
    aOps              \* history: number of ArenaAllocator calls so far

arenaVars == <<ar, aRet, aLast, aFirst, aHist, aPrevHist, aBlocksAtReset, aResets,
               aOom, aOps>>

VARIABLES
    app,              \* Application: mCurrent, mCache, mChangedFlag, mEndFlag, and whether
                      \* init has been called
    insts,            \* the State instances made by the factories, in creation order, each
                      \* with the number of its init() and update() calls
    appLast,          \* history: the last Application call and the state it started from
    appOps            \* history: number of Application calls so far

appVars == <<app, insts, appLast, appOps>>

VARIABLES
    th,               \* per thread: its own registry's pool of the viewed type, its place
                      \* in View::invokeIfValidEntity, and the calls of its callback so far
    sparseIndices     \* the function-local static array of View::invokeIfValidEntity

raceVars == <<th, sparseIndices>>

memVars == <<tlsfVars, arenaVars, appVars, raceVars>>

vars == <<regVars, jobVars, memVars>>

\* ---------------------------------------------------------------- entity
getEntityIndex(e) == e.idx
getEntitySlot(e) == e.gen
spinEntitySlot(e) == [gen |-> e.gen + 1, idx |-> e.idx]
NewEntity(n) == [gen |-> 0, idx |-> n]

\* ---------------------------------------------------------------- vectors
At(v, i) == v[i + 1]
Put(v, i, x) == [v EXCEPT ![i + 1] = x]
SwapAt(v, i, j) == [v EXCEPT ![i + 1] = v[j + 1], ![j + 1] = v[i + 1]]
PopBack(v) == SubSeq(v, 1, Len(v) - 1)
Back(v) == v[Len(v)]
\* std::vector::resize(n, x) when n > size
ResizeUp(v, n, x) == v \o [k \in 1 .. (n - Len(v)) |-> x]

EmptyPool == [exists |-> FALSE, sparse |-> <<>>, dense |-> <<>>, packed |-> <<>>]

\* ---------------------------------------------------------------- sparse set
\* SparseSet::emplace
Emplace(p, e, v) ==
    LET index == getEntityIndex(e)
        sp == IF index >= Len(p.sparse)
              THEN ResizeUp(p.sparse, index + 1, kTombstone)
              ELSE p.sparse
    IN [p EXCEPT !.sparse = Put(sp, index, Len(p.packed)),
                 !.dense = Append(p.dense, e),
                 !.packed = Append(p.packed, v)]

\* contains / remove read mDenseEntities[sparseIndex]: out of range when the
\* sparse entry is not a dense position (the action then sets ub)
Faulty(p, e) ==
    /\ getEntityIndex(e) < Len(p.sparse)
    /\ At(p.sparse, getEntityIndex(e)) # kTombstone
    /\ At(p.sparse, getEntityIndex(e)) >= Len(p.dense)

\* ISparseSet::contains with the generation comparison left out
ContainsAnyGeneration(p, e) ==
    LET index == getEntityIndex(e)
    IN IF index >= Len(p.sparse) THEN FALSE
       ELSE At(p.sparse, index) # kTombstone

\* ISparseSet::contains
Contains(p, e) ==
    LET index == getEntityIndex(e)
    IN IF index >= Len(p.sparse) THEN FALSE
       ELSE LET sparseIndex == At(p.sparse, index)
            IN /\ sparseIndex # kTombstone
               /\ ~Faulty(p, e)
               /\ getEntitySlot(At(p.dense, sparseIndex)) = getEntitySlot(e)

\* SparseSet::removePackedElement
removePackedElement(packed, sparseIndex) ==
    PopBack(SwapAt(packed, sparseIndex, Len(packed) - 1))

\* ISparseSet::remove without the redirection of the moved entity (line 82)
RemoveNoRedirect(p, e) ==
    LET index == getEntityIndex(e)
    IN IF index >= Len(p.sparse) THEN p
       ELSE LET sparseIndex == At(p.sparse, index)
            IN IF \/ sparseIndex = kTombstone
                  \/ Faulty(p, e)
                  \/ getEntitySlot(At(p.dense, sparseIndex)) # getEntitySlot(e)
               THEN p
               ELSE LET d1 == SwapAt(p.dense, sparseIndex, Len(p.dense) - 1)
                    IN [p EXCEPT !.dense = PopBack(d1),
                                 !.packed = removePackedElement(p.packed, sparseIndex),
                                 !.sparse = Put(p.sparse, index, kTombstone)]

\* remove that does not compare the generation of the handle in the slot
RemoveAnyGeneration(p, e) ==
    LET index == getEntityIndex(e)
    IN IF index >= Len(p.sparse) THEN p
       ELSE LET sparseIndex == At(p.sparse, index)
            IN IF sparseIndex = kTombstone \/ Faulty(p, e)
               THEN p
               ELSE LET d1 == SwapAt(p.dense, sparseIndex, Len(p.dense) - 1)
                        s1 == Put(p.sparse, getEntityIndex(At(d1, sparseIndex)), sparseIndex)
                    IN [p EXCEPT !.dense = PopBack(d1),
                                 !.packed = removePackedElement(p.packed, sparseIndex),
                                 !.sparse = Put(s1, index, kTombstone)]

\* ISparseSet::remove
Remove(p, e) ==
    LET index == getEntityIndex(e)
    IN IF index >= Len(p.sparse) THEN p
       ELSE LET sparseIndex == At(p.sparse, index)
            IN IF \/ sparseIndex = kTombstone
                  \/ Faulty(p, e)
                  \/ getEntitySlot(At(p.dense, sparseIndex)) # getEntitySlot(e)
               THEN p
               ELSE LET d1 == SwapAt(p.dense, sparseIndex, Len(p.dense) - 1)
                        s1 == Put(p.sparse, getEntityIndex(At(d1, sparseIndex)), sparseIndex)
                    IN [p EXCEPT !.dense = PopBack(d1),
                                 !.packed = removePackedElement(p.packed, sparseIndex),
                                 !.sparse = Put(s1, index, kTombstone)]

\* SparseSet::operator[]
Subscript(p, e) == At(p.packed, At(p.sparse, getEntityIndex(e)))

\* SparseSet::swap is only defined when both entities are bound to a component
SwapInRange(p, left, right) ==
    /\ getEntityIndex(left) < Len(p.sparse)
    /\ getEntityIndex(right) < Len(p.sparse)
    /\ At(p.sparse, getEntityIndex(left)) # kTombstone
    /\ At(p.sparse, getEntityIndex(right)) # kTombstone
    /\ At(p.sparse, getEntityIndex(left)) < Len(p.packed)
    /\ At(p.sparse, getEntityIndex(right)) < Len(p.packed)

\* SparseSet::swap (the overload Group reaches through SparseSet<T>*)
SparseSetSwap(p, left, right) ==
    IF left = right THEN p
    ELSE LET leftIndex == getEntityIndex(left)
             rightIndex == getEntityIndex(right)
             a == At(p.sparse, leftIndex)
             b == At(p.sparse, rightIndex)
         IN [p EXCEPT !.packed = SwapAt(p.packed, a, b),
                      !.dense = SwapAt(p.dense, a, b),
                      !.sparse = Put(p.sparse, leftIndex, b)]

\* ISparseSet::clear
ClearPool(p) == [p EXCEPT !.sparse = <<>>, !.dense = <<>>, !.packed = <<>>]

\* the predicates sort is called with (strict orders on the component values)
Predicates == {"less", "greater"}
predicate(cmp, a, b) == IF cmp = "less" THEN a < b ELSE a > b

\* std::sort leaves the values it was given, in an order in which no element is
\* followed by one that the predicate puts before it
RECURSIVE InsertSorted(_, _, _)
InsertSorted(x, v, cmp) ==
    IF v = <<>> THEN <<x>>
    ELSE IF predicate(cmp, x, Head(v)) THEN <<x>> \o v
    ELSE <<Head(v)>> \o InsertSorted(x, Tail(v), cmp)
RECURSIVE stdSort(_, _)
stdSort(v, cmp) ==
    IF v = <<>> THEN <<>> ELSE InsertSorted(Head(v), stdSort(Tail(v), cmp), cmp)

\* mSparseIndices[mDenseEntities[pos] & kEntityIndexMask] can be read
DenseReadable(p, pos) ==
    /\ pos >= 0 /\ pos < Len(p.dense)
    /\ getEntityIndex(At(p.dense, pos)) < Len(p.sparse)

\* SparseSet::adjust
adjust(p, lhs, rhs) ==
    [p EXCEPT !.dense = SwapAt(p.dense, At(p.sparse, getEntityIndex(lhs)),
                               At(p.sparse, getEntityIndex(rhs)))]

\* SparseSet::sort, the loop "while (curr != next)" of one position; r = [p, ub]
RECURSIVE sortCycle(_, _, _, _)
sortCycle(r, curr, next, fuel) ==
    IF r.ub \/ curr = next THEN r
    ELSE IF fuel = 0 \/ ~DenseReadable(r.p, next) THEN [r EXCEPT !.ub = TRUE]
    ELSE LET l == At(r.p.sparse, getEntityIndex(At(r.p.dense, curr)))
             rr == At(r.p.sparse, getEntityIndex(At(r.p.dense, next)))
         IN IF l < 0 \/ l >= Len(r.p.dense) \/ rr < 0 \/ rr >= Len(r.p.dense)
            THEN [r EXCEPT !.ub = TRUE]
            ELSE LET p1 == adjust(r.p, At(r.p.dense, curr), At(r.p.dense, next))
                 IN IF ~DenseReadable(p1, curr) THEN [r EXCEPT !.ub = TRUE]
                    ELSE LET p2 == [p1 EXCEPT !.sparse =
                                        Put(p1.sparse, getEntityIndex(At(p1.dense, curr)), curr)]
                         IN IF ~DenseReadable(p2, next) THEN [r EXCEPT !.ub = TRUE]
                            ELSE sortCycle([p |-> p2, ub |-> FALSE], next,
                                           At(p2.sparse, getEntityIndex(At(p2.dense, next))),
                                           fuel - 1)

\* SparseSet::sort, the loop over the positions from pos on
RECURSIVE sortPositions(_, _)
sortPositions(r, pos) ==
    IF r.ub \/ pos >= Len(r.p.dense) THEN r
    ELSE IF ~DenseReadable(r.p, pos) THEN [r EXCEPT !.ub = TRUE]
    ELSE sortPositions(
             sortCycle(r, pos, At(r.p.sparse, getEntityIndex(At(r.p.dense, pos))),
                       Len(r.p.dense) + 1),
             pos + 1)

\* sort without the call of std::sort
SparseSetSortUnsorted(p, cmp) == sortPositions([p |-> p, ub |-> FALSE], 0)

\* SparseSet::sort
SparseSetSort(p, cmp) ==
    sortPositions([p |-> [p EXCEPT !.packed = stdSort(p.packed, cmp)], ub |-> FALSE], 0)

\* ---------------------------------------------------------------- group
InGroup(T) == \E k \in 1 .. Len(GroupTypes) : GroupTypes[k] = T
\* Registry::mpGroupMap.contains(hash<T>)
Watched(T) == group.alive /\ InGroup(T)

\* the fold (args->contains(entity) && ...) over the group's pools
includeAll(ps, e) == \A k \in 1 .. Len(GroupTypes) : Contains(ps[GroupTypes[k]], e)
\* the fold reads out of range in the first pool that is asked and is faulty
includeAllFaulty(ps, e) ==
    \E k \in 1 .. Len(GroupTypes) :
        /\ Faulty(ps[GroupTypes[k]], e)
        /\ \A j \in 1 .. (k - 1) : Contains(ps[GroupTypes[j]], e)

\* Group::iterateTupleAndSwap; r.ub is set when a vector is read out of range
RECURSIVE iterateTupleAndSwap(_, _, _, _)
iterateTupleAndSwap(r, target, groupSize, N) ==
    IF N > Len(GroupTypes) \/ r.ub THEN r
    ELSE LET T == GroupTypes[N]
             p == r.pools[T]
         IN IF groupSize < 0 \/ groupSize >= Len(p.dense)
            THEN [r EXCEPT !.ub = TRUE]
            ELSE LET right == At(p.dense, groupSize)
                 IN IF target # right /\ ~SwapInRange(p, target, right)
                    THEN [r EXCEPT !.ub = TRUE]
                    ELSE iterateTupleAndSwap(
                             [r EXCEPT !.pools[T] = SparseSetSwap(p, target, right)],
                             target, groupSize, N + 1)

\* Group::checkAddedImpl
checkAddedImpl(r, e) ==
    IF includeAllFaulty(r.pools, e) THEN [r EXCEPT !.ub = TRUE]
    ELSE IF includeAll(r.pools, e)
    THEN LET s == iterateTupleAndSwap(r, e, r.size, 1)
         IN [s EXCEPT !.size = r.size + 1]
    ELSE r

\* Group::checkRemovedImpl
checkRemovedImpl(r, e) ==
    IF includeAllFaulty(r.pools, e) THEN [r EXCEPT !.ub = TRUE]
    ELSE IF includeAll(r.pools, e)
    THEN LET s == iterateTupleAndSwap(r, e, r.size - 1, 1)
         IN [s EXCEPT !.size = r.size - 1]
    ELSE r

\* Group::iterateTupleAndSearchMinSizeSparseSet: index of the first smallest pool
RECURSIVE searchMinGroupPool(_, _, _)
searchMinGroupPool(ps, N, best) ==
    IF N > Len(GroupTypes) THEN best
    ELSE IF best = 0 \/ Len(ps[GroupTypes[best]].dense) > Len(ps[GroupTypes[N]].dense)
         THEN searchMinGroupPool(ps, N + 1, N)
         ELSE searchMinGroupPool(ps, N + 1, best)

\* Group::Group: the loop over the smallest pool's dense entities, position pos
RECURSIVE groupCtorLoop(_, _, _, _)
groupCtorLoop(r, minT, pos, end) ==
    IF pos >= end \/ r.ub THEN r
    ELSE groupCtorLoop(checkAddedImpl(r, At(r.pools[minT].dense, pos)), minT, pos + 1, end)

\* ---------------------------------------------------------------- job system
Workers == 1 .. NumWorkers
Addr == 1 .. MaxJobs
JobIds == 1 .. MaxCreated
NULL == 0

FreeJob == [alloc |-> FALSE, held |-> FALSE, id |-> 0, pNext |-> NULL,
            dependencyCount |-> 0, pChildren |-> <<>>]
\* ThreadPool::createJob / new Job(): pNext null, no dependency, no children
NewJob(i, h) == [alloc |-> TRUE, held |-> h, id |-> i, pNext |-> NULL,
                 dependencyCount |-> 0, pChildren |-> <<>>]

JobInit ==
    /\ heap = [a \in Addr |-> FreeJob]
    /\ mpJobHead = NULL
    /\ mRemainingJobNum = 0
    /\ mpSubmittedJobs = {}
    /\ mStop = FALSE
    /\ wk = [w \in Workers |-> [pc |-> "idle", pJob |-> NULL, k |-> 0]]
    /\ mainPc = "idle"
    /\ nextId = 0
    /\ parents = [j \in JobIds |-> {}]
    /\ submitted = {}
    /\ started = {}
    /\ execs = [j \in JobIds |-> 0]
    /\ owed = {}
    /\ lastEvent = "init"
    /\ restarts = [n |-> 0, submitted |-> {}]
    /\ pf = [fn |-> "", pc |-> "none", start |-> <<0, 0>>, end |-> <<0, 0>>, i |-> 0,
             now |-> 0, jobs |-> <<>>]

\* a step of the pool or of the thread that uses it
poolStep == lastEvent' = "step" /\ UNCHANGED <<regVars, memVars>>

\* a step other than restart()
notRestart == poolStep /\ restarts' = restarts

\* a step outside parallelFor and its variants
jobStep == notRestart /\ pf' = pf

\* ThreadPool::createJob: operator new may hand out any address that is free
CreateJob ==
    \E a \in Addr :
        /\ mainPc = "idle"
        /\ nextId < MaxCreated
        /\ ~heap[a].alloc
        /\ heap' = [heap EXCEPT ![a] = NewJob(nextId + 1, TRUE)]
        /\ nextId' = nextId + 1
        /\ jobStep
        /\ UNCHANGED <<mpJobHead, mRemainingJobNum, mpSubmittedJobs, mStop, wk, mainPc,
                       parents, submitted, started, execs, owed>>

\* Job::addChild, on jobs the caller has created and not yet handed to the pool
AddChild ==
    \E p \in Addr, c \in Addr :
        /\ mainPc = "idle"
        /\ heap[p].alloc /\ heap[p].held
        /\ heap[c].alloc /\ heap[c].held
        /\ heap[p].id < heap[c].id
        /\ \A k \in 1 .. Len(heap[p].pChildren) : heap[p].pChildren[k] # c
        /\ heap' = [heap EXCEPT ![p].pChildren = Append(@, c),
                                ![c].dependencyCount = @ + 1]
        /\ parents' = [parents EXCEPT ![heap[c].id] = @ \cup {heap[p].id}]
        /\ jobStep
        /\ UNCHANGED <<mpJobHead, mRemainingJobNum, mpSubmittedJobs, mStop, wk, mainPc,
                       nextId, submitted, started, execs, owed>>

\* the lambda countAllChildren of ThreadPool::submit(Job&&), from child k of job a on;
\* acc.set is mpSubmittedJobs, acc.n is childJobs
RECURSIVE countAllChildren(_, _, _)
countAllChildren(a, k, acc) ==
    IF k > Len(heap[a].pChildren) THEN acc
    ELSE LET pChild == heap[a].pChildren[k]
         IN IF pChild \in acc.set
            THEN countAllChildren(a, k + 1, acc)
            ELSE countAllChildren(a, k + 1,
                     countAllChildren(pChild, 1,
                         [set |-> acc.set \cup {pChild}, n |-> acc.n + 1]))

\* the jobs reachable from job a along pChildren (a included)
RECURSIVE Reach(_, _)
Reach(a, n) ==
    IF n = 0 THEN {a}
    ELSE {a} \cup UNION {Reach(heap[a].pChildren[k], n - 1) :
                            k \in 1 .. Len(heap[a].pChildren)}
Descendants(a) == Reach(a, MaxJobs)

\* ThreadPool::submit(Job&&) of a job without parents
SubmitJob ==
    \E a \in Addr :
        /\ mainPc = "idle"
        /\ heap[a].alloc /\ heap[a].held
        /\ heap[a].dependencyCount = 0
        /\ LET acc == countAllChildren(a, 1, [set |-> mpSubmittedJobs, n |-> 0])
               reach == Descendants(a)
           IN /\ heap' = [b \in Addr |->
                             IF b = a
                             THEN [heap[b] EXCEPT !.held = FALSE,
                                                  !.pNext = IF mpJobHead = NULL
                                                            THEN heap[b].pNext
                                                            ELSE mpJobHead]
                             ELSE IF b \in reach THEN [heap[b] EXCEPT !.held = FALSE]
                             ELSE heap[b]]
              /\ mpJobHead' = a
              /\ mpSubmittedJobs' = acc.set
              /\ mRemainingJobNum' = mRemainingJobNum + 1 + acc.n
              /\ submitted' = submitted \cup {heap[b].id : b \in reach}
        /\ jobStep
        /\ UNCHANGED <<mStop, wk, mainPc, nextId, parents, started, execs, owed>>

\* ThreadPool::submit(const std::function<void()>&)
SubmitPlain ==
    \E a \in Addr :
        /\ mainPc = "idle"
        /\ nextId < MaxCreated
        /\ ~heap[a].alloc
        /\ heap' = [heap EXCEPT ![a] = [NewJob(nextId + 1, FALSE) EXCEPT !.pNext = mpJobHead]]
        /\ mpJobHead' = a
        /\ mRemainingJobNum' = mRemainingJobNum + 1
        /\ nextId' = nextId + 1
        /\ submitted' = submitted \cup {nextId + 1}
        /\ jobStep
        /\ UNCHANGED <<mpSubmittedJobs, mStop, wk, mainPc, parents, started, execs, owed>>

\* ThreadPool::wait is entered, every job the caller created having been submitted
WaitCall ==
    /\ mainPc = "idle"
    /\ \A a \in Addr : ~heap[a].held
    /\ mainPc' = "waitList"
    /\ owed' = submitted
    /\ jobStep
    /\ UNCHANGED <<heap, mpJobHead, mRemainingJobNum, mpSubmittedJobs, mStop, wk,
                   nextId, parents, submitted, started, execs>>

\* ThreadPool::wait, first loop: left when mpJobHead is null.  The loop condition
\* reads mpJobHead without the mutex; a value it can see is one the list held at some
\* moment after wait() was entered, which is this step taken at that moment.
WaitListEmpty ==
    /\ mainPc = "waitList"
    /\ mpJobHead = NULL
    /\ mainPc' = "waitCount"
    /\ jobStep
    /\ UNCHANGED <<heap, mpJobHead, mRemainingJobNum, mpSubmittedJobs, mStop, wk,
                   nextId, parents, submitted, started, execs, owed>>

\* ThreadPool::wait, second loop left when mRemainingJobNum is 0; then the resets
WaitReturn ==
    /\ mainPc = "waitCount"
    /\ mRemainingJobNum = 0
    /\ mRemainingJobNum' = 0
    /\ mpSubmittedJobs' = {}
    /\ mainPc' = "idle"
    /\ lastEvent' = "waitReturn"
    /\ pf' = IF pf.pc = "wait" THEN [pf EXCEPT !.pc = "done"] ELSE pf
    /\ UNCHANGED <<regVars, memVars, restarts>>
    /\ UNCHANGED <<heap, mpJobHead, mStop, wk, nextId, parents, submitted, started,
                   execs, owed>>

\* ThreadPool::worker: under the mutex, past cv.wait, take the head job; the callable
\* is entered
WorkerTake(w) ==
    /\ wk[w].pc = "idle"
    /\ mStop \/ mpJobHead # NULL
    /\ mpJobHead # NULL
    /\ wk' = [wk EXCEPT ![w] = [pc |-> "run", pJob |-> mpJobHead, k |-> 0]]
    /\ mpJobHead' = heap[mpJobHead].pNext
    /\ started' = started \cup {heap[mpJobHead].id}
    /\ jobStep
    /\ UNCHANGED <<heap, mRemainingJobNum, mpSubmittedJobs, mStop, mainPc, nextId,
                   parents, submitted, execs, owed>>

\* ThreadPool::worker: pJob->f() returns, mRemainingJobNum.fetch_sub(1)
WorkerFinish(w) ==
    /\ wk[w].pc = "run"
    /\ execs' = [execs EXCEPT ![heap[wk[w].pJob].id] = @ + 1]
    /\ mRemainingJobNum' = mRemainingJobNum - 1
    /\ wk' = [wk EXCEPT ![w].pc = "children", ![w].k = 1]
    /\ jobStep
    /\ UNCHANGED <<heap, mpJobHead, mpSubmittedJobs, mStop, mainPc, nextId, parents,
                   submitted, started, owed>>

\* the test of the child loop with the result of fetch_sub ignored
LastDependencyAlways(old) == TRUE

\* the test of the child loop: fetch_sub(1) == 1
LastDependency(old) == old = 1

\* ThreadPool::worker: pChild->dependencyCount.fetch_sub(1) for child k
WorkerChild(w) ==
    /\ wk[w].pc = "children"
    /\ wk[w].k <= Len(heap[wk[w].pJob].pChildren)
    /\ LET pChild == heap[wk[w].pJob].pChildren[wk[w].k]
       IN /\ heap' = [heap EXCEPT ![pChild].dependencyCount = @ - 1]
          /\ wk' = IF LastDependency(heap[pChild].dependencyCount)
                   THEN [wk EXCEPT ![w].pc = "push"]
                   ELSE [wk EXCEPT ![w].k = @ + 1]
    /\ jobStep
    /\ UNCHANGED <<mpJobHead, mRemainingJobNum, mpSubmittedJobs, mStop, mainPc, nextId,
                   parents, submitted, started, execs, owed>>

\* ThreadPool::worker: under the mutex, the ready child is pushed on the list
WorkerPush(w) ==
    /\ wk[w].pc = "push"
    /\ LET pChild == heap[wk[w].pJob].pChildren[wk[w].k]
       IN /\ heap' = [heap EXCEPT ![pChild].pNext = mpJobHead]
          /\ mpJobHead' = pChild
    /\ wk' = [wk EXCEPT ![w].pc = "children", ![w].k = @ + 1]
    /\ jobStep
    /\ UNCHANGED <<mRemainingJobNum, mpSubmittedJobs, mStop, mainPc, nextId, parents,
                   submitted, started, execs, owed>>

\* ThreadPool::worker: delete pJob, back to the top of the loop
WorkerDelete(w) ==
    /\ wk[w].pc = "children"
    /\ wk[w].k > Len(heap[wk[w].pJob].pChildren)
    /\ heap' = [heap EXCEPT ![wk[w].pJob] = FreeJob]
    /\ wk' = [wk EXCEPT ![w] = [pc |-> "idle", pJob |-> NULL, k |-> 0]]
    /\ jobStep
    /\ UNCHANGED <<mpJobHead, mRemainingJobNum, mpSubmittedJobs, mStop, mainPc, nextId,
                   parents, submitted, started, execs, owed>>

Take == \E w \in Workers : WorkerTake(w)
Finish == \E w \in Workers : WorkerFinish(w)
Child == \E w \in Workers : WorkerChild(w)
Push == \E w \in Workers : WorkerPush(w)
Delete == \E w \in Workers : WorkerDelete(w)

\* the jobs linked from the head of the ready list
RECURSIVE ListFrom(_, _)
ListFrom(a, n) ==
    IF a = NULL \/ n = 0 THEN {} ELSE {a} \cup ListFrom(heap[a].pNext, n - 1)
ReadyList == ListFrom(mpJobHead, MaxJobs)

Exited(w) == wk[w].pc = "exited"

\* ThreadPool::stop is entered on a running pool: mStop = true under the mutex,
\* cv.notify_all
StopCall ==
    /\ mainPc = "idle"
    /\ ~mStop
    /\ \A w \in Workers : ~Exited(w)
    /\ mStop' = TRUE
    /\ mainPc' = "stopList"
    /\ owed' = {heap[a].id : a \in ReadyList}
    /\ jobStep
    /\ UNCHANGED <<heap, mpJobHead, mRemainingJobNum, mpSubmittedJobs, wk, nextId,
                   parents, submitted, started, execs>>

\* ThreadPool::stop is entered on a pool whose threads have been joined by an earlier
\* stop(): mStop = true, cv.notify_all reaches nobody
StopCallStopped ==
    /\ mainPc = "idle"
    /\ ~mStop
    /\ \A w \in Workers : Exited(w)
    /\ mStop' = TRUE
    /\ mainPc' = "stopList"
    /\ owed' = {heap[a].id : a \in ReadyList}
    /\ jobStep
    /\ UNCHANGED <<heap, mpJobHead, mRemainingJobNum, mpSubmittedJobs, wk, nextId,
                   parents, submitted, started, execs>>

\* ThreadPool::stop, the loop: left when mpJobHead is null under the mutex.  The outer
\* test reads mpJobHead without the mutex in a loop with no other effect; a build that
\* keeps spinning is this step never being taken.
StopListEmpty ==
    /\ mainPc = "stopList"
    /\ mpJobHead = NULL
    /\ mainPc' = "stopJoin"
    /\ jobStep
    /\ UNCHANGED <<heap, mpJobHead, mRemainingJobNum, mpSubmittedJobs, mStop, wk,
                   nextId, parents, submitted, started, execs, owed>>

\* a worker leaves although jobs are on the ready list
WorkerExitListIgnored(w) ==
    /\ wk[w].pc = "idle"
    /\ mStop
    /\ wk' = [wk EXCEPT ![w].pc = "exited"]
    /\ lastEvent' = "exit"
    /\ UNCHANGED <<regVars, memVars, restarts, pf>>
    /\ UNCHANGED <<heap, mpJobHead, mRemainingJobNum, mpSubmittedJobs, mStop, mainPc,
                   nextId, parents, submitted, started, execs, owed>>

\* ThreadPool::worker: past cv.wait with mStop set and the list empty, the thread returns
WorkerExit(w) ==
    /\ wk[w].pc = "idle"
    /\ mStop /\ mpJobHead = NULL
    /\ wk' = [wk EXCEPT ![w].pc = "exited"]
    /\ lastEvent' = "exit"
    /\ UNCHANGED <<regVars, memVars, restarts, pf>>
    /\ UNCHANGED <<heap, mpJobHead, mRemainingJobNum, mpSubmittedJobs, mStop, mainPc,
                   nextId, parents, submitted, started, execs, owed>>

Exit == \E w \in Workers : WorkerExit(w)

\* ThreadPool::stop: every thread joined, then the resets
StopReturn ==
    /\ mainPc = "stopJoin"
    /\ \A w \in Workers : Exited(w)
    /\ mRemainingJobNum' = 0
    /\ mpSubmittedJobs' = {}
    /\ mStop' = FALSE
    /\ mainPc' = "idle"
    /\ lastEvent' = "stopReturn"
    /\ UNCHANGED <<regVars, memVars, restarts, pf>>
    /\ UNCHANGED <<heap, mpJobHead, wk, nextId, parents, submitted, started, execs, owed>>

\* ThreadPool::restart: every thread is started again; noted: the history records it
RestartBody(noted) ==
    /\ mainPc = "idle"
    /\ \A w \in Workers : Exited(w)
    /\ wk' = [w \in Workers |-> [pc |-> "idle", pJob |-> NULL, k |-> 0]]
    /\ restarts' = IF noted THEN [n |-> 1, submitted |-> submitted] ELSE restarts
    /\ poolStep /\ pf' = pf
    /\ UNCHANGED <<heap, mpJobHead, mRemainingJobNum, mpSubmittedJobs, mStop, mainPc,
                   nextId, parents, submitted, started, execs, owed>>

\* restart() in histories that do not record it
Restart == RestartBody(FALSE)

\* restart() with the jobs submitted before it recorded
RestartNoted == RestartBody(TRUE)

\* ---------------------------------------------------------------- parallel loops
\* ThreadPool::size(): the constructor starts at least one thread
PoolSize == NumWorkers

\* kInvalidRem is 0xFFFFFFFF; it is above every index end - 1 of a uint32_t range
kInvalidRem == -1

\* the integers a, a + 1, ..., b - 1 in loop order
Upto(a, b) == [k \in 1 .. (IF b > a THEN b - a ELSE 0) |-> a + k - 1]

\* the calls f(j, k) of the inner loop over k for the column j
Column(j, y0, y1) == [k \in 1 .. (IF y1 > y0 THEN y1 - y0 ELSE 0) |-> <<j, y0 + k - 1>>]

RECURSIVE Columns(_, _, _)
Columns(xs, y0, y1) ==
    IF xs = <<>> THEN <<>> ELSE Column(Head(xs), y0, y1) \o Columns(Tail(xs), y0, y1)

\* parallelFor that leaves the remainder indices out
parallelForNoRem(start, end, i) ==
    LET range == end - start
        chunkSize == range \div PoolSize
        chunkStart == start + i * chunkSize
        chunkEnd == chunkStart + chunkSize
    IN [brk |-> chunkEnd = chunkStart,
        calls |-> [k \in 1 .. chunkSize |-> <<chunkStart + k - 1>>]]

\* parallelFor, iteration i of the loop: whether it breaks, else the calls of f the
\* submitted lambda makes
parallelFor(start, end, i) ==
    LET range == end - start
        chunkSize == range \div PoolSize
        remainder == range % PoolSize
        remStart == end - remainder
        chunkStart == start + i * chunkSize
        chunkEnd == chunkStart + chunkSize
        rem == IF i < remainder THEN remStart + i ELSE kInvalidRem
    IN [brk |-> chunkEnd = chunkStart /\ rem = kInvalidRem,
        calls |-> [k \in 1 .. chunkSize |-> <<chunkStart + k - 1>>]
                     \o (IF rem = kInvalidRem THEN <<>> ELSE << <<rem>> >>)]

\* parallelForChunk, iteration i: the lambda calls f(now, now + chunkSize) with the
\* values now and chunkSize have in this iteration
parallelForChunk(start, end, i, now) ==
    LET range == end - start
        remainder == range % PoolSize
        chunkSize == range \div PoolSize + (IF i < remainder THEN 1 ELSE 0)
    IN [brk |-> FALSE, calls |-> << <<now, now + chunkSize>> >>, now |-> now + chunkSize]

\* parallelFor2D that leaves the remainder columns out
parallelFor2DNoRem(start, end, i) ==
    LET rangeX == end[1] - start[1]
        chunkSizeX == rangeX \div PoolSize
        chunkStartX == start[1] + i * chunkSizeX
        chunkEndX == chunkStartX + chunkSizeX
    IN [brk |-> chunkEndX = chunkStartX,
        calls |-> Columns(Upto(chunkStartX, chunkEndX), start[2], end[2])]

\* parallelFor2D, iteration i
parallelFor2D(start, end, i) ==
    LET rangeX == end[1] - start[1]
        chunkSizeX == rangeX \div PoolSize
        remainderX == rangeX % PoolSize
        remStart == end[1] - remainderX
        chunkStartX == start[1] + i * chunkSizeX
        chunkEndX == chunkStartX + chunkSizeX
        rem == IF i < remainderX THEN remStart + i ELSE kInvalidRem
    IN [brk |-> chunkEndX = chunkStartX /\ rem = kInvalidRem,
        calls |-> Columns(Upto(chunkStartX, chunkEndX), start[2], end[2])
                     \o (IF rem = kInvalidRem THEN <<>> ELSE Column(rem, start[2], end[2]))]

\* parallelFor2DChunk, iteration i: f({nowX, start.y}, {nowX + chunkSizeX, end.y}) when
\* the rectangle is wider than tall, f({start.x, nowY}, {end.x, nowY + chunkSizeY}) else
parallelFor2DChunk(start, end, i, now) ==
    LET rangeX == end[1] - start[1]
        rangeY == end[2] - start[2]
    IN IF rangeX > rangeY
       THEN LET remainderX == rangeX % PoolSize
                chunkSizeX == rangeX \div PoolSize + (IF i < remainderX THEN 1 ELSE 0)
            IN [brk |-> FALSE,
                calls |-> << << <<now, start[2]>>, <<now + chunkSizeX, end[2]>> >> >>,
                now |-> now + chunkSizeX]
       ELSE LET remainderY == rangeY % PoolSize
                chunkSizeY == rangeY \div PoolSize + (IF i < remainderY THEN 1 ELSE 0)
            IN [brk |-> FALSE,
                calls |-> << << <<start[1], now>>, <<end[1], now + chunkSizeY>> >> >>,
                now |-> now + chunkSizeY]

ParallelFns == {"parallelFor", "parallelForChunk", "parallelFor2D", "parallelFor2DChunk"}
PfStarts == {<<0, 0>>, <<1, 2>>}
PfSides == 0 .. MaxRange

\* the first value of now / nowX / nowY
FirstNow(fn, start, end) ==
    IF fn = "parallelFor2DChunk" /\ ~(end[1] - start[1] > end[2] - start[2])
    THEN start[2] ELSE start[1]

\* a call of parallelFor or one of its variants on a pool at rest; the one-dimensional
\* functions get start[1] and end[1]
PfCall ==
    \E fn \in ParallelFns, start \in PfStarts, dx \in PfSides, dy \in PfSides :
        /\ mainPc = "idle"
        /\ ~mStop /\ \A w \in Workers : ~Exited(w)
        /\ mpJobHead = NULL /\ mRemainingJobNum = 0
        /\ nextId + PoolSize <= MaxCreated
        /\ fn \in {"parallelFor", "parallelForChunk"} => dy = 0
        /\ LET end == <<start[1] + dx, start[2] + dy>>
           IN pf' = [fn |-> fn, pc |-> "loop", start |-> start, end |-> end, i |-> 0,
                     now |-> FirstNow(fn, start, end), jobs |-> <<>>]
        /\ mainPc' = "parallelFor"
        /\ notRestart
        /\ UNCHANGED <<heap, mpJobHead, mRemainingJobNum, mpSubmittedJobs, mStop, wk,
                       nextId, parents, submitted, started, execs, owed>>

\* iteration pf.i of the loop of the function called
Iteration ==
    IF pf.fn = "parallelFor"
    THEN parallelFor(pf.start[1], pf.end[1], pf.i) @@ [now |-> pf.now]
    ELSE IF pf.fn = "parallelForChunk"
    THEN parallelForChunk(pf.start[1], pf.end[1], pf.i, pf.now)
    ELSE IF pf.fn = "parallelFor2D"
    THEN parallelFor2D(pf.start, pf.end, pf.i) @@ [now |-> pf.now]
    ELSE parallelFor2DChunk(pf.start, pf.end, pf.i, pf.now)

\* one iteration that does not break: threadPool.submit(lambda)
PfSubmit ==
    \E a \in Addr :
        /\ mainPc = "parallelFor" /\ pf.pc = "loop"
        /\ pf.i < PoolSize /\ ~Iteration.brk
        /\ ~heap[a].alloc
        /\ heap' = [heap EXCEPT ![a] = [NewJob(nextId + 1, FALSE) EXCEPT !.pNext = mpJobHead]]
        /\ mpJobHead' = a
        /\ mRemainingJobNum' = mRemainingJobNum + 1
        /\ nextId' = nextId + 1
        /\ submitted' = submitted \cup {nextId + 1}
        /\ pf' = [pf EXCEPT !.i = @ + 1, !.now = Iteration.now,
                            !.jobs = Append(@, [id |-> nextId + 1, calls |-> Iteration.calls])]
        /\ notRestart
        /\ UNCHANGED <<mpSubmittedJobs, mStop, wk, mainPc, parents, started, execs, owed>>

\* the loop is left, threadPool.wait() is entered
PfWait ==
    /\ mainPc = "parallelFor" /\ pf.pc = "loop"
    /\ pf.i >= PoolSize \/ Iteration.brk
    /\ pf' = [pf EXCEPT !.pc = "wait"]
    /\ mainPc' = "waitList"
    /\ owed' = submitted
    /\ notRestart
    /\ UNCHANGED <<heap, mpJobHead, mRemainingJobNum, mpSubmittedJobs, mStop, wk,
                   nextId, parents, submitted, started, execs>>

\* ---------------------------------------------------------------- TLSF allocator
kSplitNum == 4
\* sizeof(BoundaryBlock<TLSFBlockHeader>): size, pre, next, used on a 64-bit build
HeaderSize == 32
\* sizeof(EndTag)
EndTagSize == 4
\* nullptr for block pointers (addresses are offsets from mMemory)
Nil == -1
MinSize == 2 ^ kSplitNum
SplitNum == 2 ^ kSplitNum
Overhead == HeaderSize + EndTagSize

\* TLSFAllocator::getMSB
RECURSIVE getMSB(_)
getMSB(data) == IF data <= 1 THEN 0 ELSE 1 + getMSB(data \div 2)

mMaxSize == ArenaBytes - HeaderSize - EndTagSize
mAllSize == ArenaBytes
mBlockArraySize == (getMSB(mMaxSize) - kSplitNum + 1) * SplitNum

\* TLSFAllocator::getSecondLevel; the shift count MSB - N wraps when MSB < N
ShiftDefined(MSB) == MSB >= kSplitNum
getSecondLevel(size, MSB, N) == (size % (2 ^ MSB)) \div (2 ^ (MSB - N))

\* TLSFAllocator::getBlockArrayIndex, and whether it is an index of mBlockArray
getBlockArrayIndex(FLI, SLI) == (FLI - kSplitNum) * SplitNum + SLI
IndexOK(FLI, SLI) == FLI >= kSplitNum /\ getBlockArrayIndex(FLI, SLI) < mBlockArraySize

\* the free-list class of a block of the given memory size
ClassOK(size) ==
    ShiftDefined(getMSB(size)) /\ IndexOK(getMSB(size), getSecondLevel(size, getMSB(size), kSplitNum))
ClassIndex(size) ==
    getBlockArrayIndex(getMSB(size), getSecondLevel(size, getMSB(size), kSplitNum))

\* TLSFBlockHeader(): pre and next null, not used
FreshHeader(size) == [size |-> size, pre |-> Nil, next |-> Nil, used |-> FALSE]

HasHdr(t, a) == a \in DOMAIN t.hdr
\* BoundaryBlock::getBlockSize / next
getBlockSize(t, a) == HeaderSize + t.hdr[a].size + EndTagSize
NextBlock(t, a) == a + getBlockSize(t, a)
\* BoundaryBlock::writeEndTag
writeEndTag(t, a) ==
    [t EXCEPT !.tag = ((a + getBlockSize(t, a) - EndTagSize) :> getBlockSize(t, a)) @@ t.tag]
\* BoundaryBlock::BoundaryBlock(size) constructed at address a
PlaceBlock(t, a, size) ==
    writeEndTag([t EXCEPT !.hdr = (a :> FreshHeader(size)) @@ t.hdr], a)
SetHdr(t, a, h) == [t EXCEPT !.hdr = (a :> h) @@ t.hdr]
Fault(t) == [t EXCEPT !.fault = TRUE]
SetSlot(t, i, a) == [t EXCEPT !.slot[i + 1] = a]
Slot(t, i) == t.slot[i + 1]

\* TLSFAllocator::registerFLI / unregisterFLI (mAllFLI as the set of its bits)
registerFLI(t, memorySize) == [t EXCEPT !.fli = @ \cup {getMSB(memorySize)}]
unregisterFLI(t, memorySize) == [t EXCEPT !.fli = @ \ {getMSB(memorySize)}]

\* TLSFAllocator::clearAll
clearAll ==
    LET t0 == [hdr |-> <<>>, tag |-> <<>>, slot |-> [i \in 1 .. mBlockArraySize |-> Nil],
               fli |-> {}, fault |-> FALSE]
        t1 == PlaceBlock(t0, 0, mMaxSize)
    IN [SetSlot(t1, getBlockArrayIndex(getMSB(mMaxSize), 0), 0) EXCEPT !.fli = {getMSB(mMaxSize)}]

\* TLSFAllocator::removeBlockFromList(pBlock, pRight)
removeBlockFromList(t, pBlock, pRight) ==
    LET h == t.hdr[pBlock]
    IN IF h.next = Nil /\ h.pre = Nil
       THEN IF ClassOK(h.size)
            THEN SetSlot(unregisterFLI(t, h.size), ClassIndex(h.size), Nil)
            ELSE Fault(t)
       ELSE IF h.pre # Nil
       THEN LET t1 == SetHdr(t, h.pre, [t.hdr[h.pre] EXCEPT !.next = h.next])
            IN IF h.next # Nil
               THEN SetHdr(t1, h.next, [t1.hdr[h.next] EXCEPT !.pre = h.pre])
               ELSE t1
       ELSE LET t1 == SetHdr(t, h.next, [t.hdr[h.next] EXCEPT !.pre = Nil])
            IN IF ~ClassOK(h.size) THEN Fault(t)
               ELSE IF pRight # Nil
               THEN SetSlot(t1, ClassIndex(h.size), t1.hdr[pRight].next)
               ELSE SetSlot(t1, ClassIndex(h.size), h.next)

\* the loop "for (; header->next && header->used;) header = header->next": the first
\* header of the list that is not used, or the last one; Hang when the list is cyclic
Hang == -2
RECURSIVE Walk(_, _, _)
Walk(t, a, fuel) ==
    IF ~(t.hdr[a].next # Nil /\ t.hdr[a].used) THEN a
    ELSE IF fuel = 0 THEN Hang
    ELSE Walk(t, t.hdr[a].next, fuel - 1)
WalkList(t, a) == Walk(t, a, Cardinality(DOMAIN t.hdr))

\* TLSFAllocator::getFreeListSLI: lowest set bit at or above mySLI, or -1
getFreeListSLI(mySLI, freeListBit) ==
    LET enableListBit == {i \in freeListBit : i >= mySLI}
    IN IF enableListBit = {} THEN -1
       ELSE CHOOSE i \in enableListBit : \A j \in enableListBit : i <= j

\* TLSFAllocator::getFreeListFLI: highest set bit at or above myFLI, or -1
getFreeListFLI(myFLI, globalFLI) ==
    LET enableFLIBit == {f \in globalFLI : f >= myFLI}
    IN IF enableFLIBit = {} THEN -1
       ELSE CHOOSE f \in enableFLIBit : \A g \in enableFLIBit : f >= g

\* BoundaryBlock::enableSplit
enableSplit(t, a, size) == size + EndTagSize + HeaderSize <= t.hdr[a].size

\* BoundaryBlock::split: the block keeps size bytes, a new block gets the rest
split(t, a, size) ==
    LET newBlockMemSize == t.hdr[a].size - (size + EndTagSize + HeaderSize)
        t1 == writeEndTag(SetHdr(t, a, [t.hdr[a] EXCEPT !.size = size]), a)
    IN PlaceBlock(t1, NextBlock(t1, a), newBlockMemSize)

\* allocate, lines 242-281: the highest second-level list of newFLI whose head is not
\* used is split; r = [t, ret] with ret = Nil when the function returns nullptr here,
\* and ret = 0 when it goes on
takeFromBigger(t, size, FLI, SLI, newFLI) ==
    LET cand == {i \in 0 .. (SplitNum - 1) :
                    /\ Slot(t, getBlockArrayIndex(newFLI, i)) # Nil
                    /\ ~t.hdr[Slot(t, getBlockArrayIndex(newFLI, i))].used}
    IN IF cand = {} THEN [t |-> t, ret |-> 0]
       ELSE LET i == CHOOSE x \in cand : \A y \in cand : x >= y
                from == getBlockArrayIndex(newFLI, i)
                biggerBlock == Slot(t, from)
            IN IF ~enableSplit(t, biggerBlock, size) THEN [t |-> t, ret |-> Nil]
               ELSE LET t1 == SetSlot(unregisterFLI(t, t.hdr[biggerBlock].size), from, Nil)
                        t2 == split(t1, biggerBlock, size)
                        splitted == NextBlock(t2, biggerBlock)
                        rest == t2.hdr[splitted].size
                        t3 == SetSlot(t2, getBlockArrayIndex(FLI, SLI), biggerBlock)
                    IN IF ~ClassOK(rest) THEN [t |-> Fault(t3), ret |-> 0]
                       ELSE IF Slot(t3, from) = Nil
                       THEN [t |-> registerFLI(SetSlot(t3, ClassIndex(rest), splitted), rest),
                             ret |-> 0]
                       ELSE LET head == Slot(t3, from)
                                t4 == SetHdr(t3, head, [t3.hdr[head] EXCEPT !.next = splitted])
                                t5 == SetHdr(t4, splitted,
                                             [t4.hdr[splitted] EXCEPT !.pre = head, !.next = Nil])
                            IN [t |-> registerFLI(t5, rest), ret |-> 0]

\* allocate, lines 291-298: the head of the chosen list is handed out if it is not used
takeTarget(t, idx) ==
    LET target == Slot(t, idx)
    IN IF target = Nil \/ t.hdr[target].used THEN [t |-> t, ret |-> Nil]
       ELSE [t |-> SetHdr(t, target, [t.hdr[target] EXCEPT !.used = TRUE]), ret |-> target]

\* the heads of the lists of one first level, walked as allocate does
ListsWalkable(t, FLI) ==
    \A i \in 0 .. (SplitNum - 1) :
        Slot(t, getBlockArrayIndex(FLI, i)) # Nil =>
            WalkList(t, Slot(t, getBlockArrayIndex(FLI, i))) # Hang

\* TLSFAllocator::allocate (NDEBUG build); ret is the block handed out (its memory
\* starts HeaderSize bytes further), or Nil for nullptr
allocate(t, n) ==
    LET size == IF n < MinSize THEN MinSize ELSE n
        FLI == getMSB(size)
        SLI == getSecondLevel(size, FLI, kSplitNum)
        idx == getBlockArrayIndex(FLI, SLI)
    IN IF size > mMaxSize THEN [t |-> t, ret |-> Nil]
       ELSE IF ~ListsWalkable(t, FLI) THEN [t |-> Fault(t), ret |-> Nil]
       ELSE LET target == Slot(t, idx)
                header == IF target = Nil THEN Nil ELSE WalkList(t, target)
            IN IF target # Nil /\ ~t.hdr[header].used THEN takeTarget(t, idx)
               ELSE LET freeListBit ==
                            {i \in 0 .. (SplitNum - 1) :
                                /\ Slot(t, getBlockArrayIndex(FLI, i)) # Nil
                                /\ ~t.hdr[WalkList(t, Slot(t, getBlockArrayIndex(FLI, i)))].used}
                        newSLI == getFreeListSLI(SLI, freeListBit)
                    IN IF newSLI # -1 THEN takeTarget(t, getBlockArrayIndex(FLI, newSLI))
                       ELSE LET newFLI == getFreeListFLI(FLI, t.fli)
                            IN IF newFLI = -1 THEN [t |-> t, ret |-> Nil]
                               ELSE IF ~IndexOK(newFLI, SplitNum - 1)
                               THEN [t |-> Fault(t), ret |-> Nil]
                               ELSE LET r == takeFromBigger(t, size, FLI, SLI, newFLI)
                                    IN IF r.ret = Nil \/ r.t.fault
                                       THEN [t |-> r.t, ret |-> Nil]
                                       ELSE takeTarget(r.t, idx)

\* BoundaryBlock::merge: the block takes in the block that follows it
merge(t, a) ==
    LET nextBlock == NextBlock(t, a)
    IN IF ~HasHdr(t, nextBlock) THEN Fault(t)
       ELSE writeEndTag(
                SetHdr(t, a, [t.hdr[a] EXCEPT !.size = @ + EndTagSize + HeaderSize
                                                         + t.hdr[nextBlock].size]), a)

\* BoundaryBlock::prev of the block at a.  The end tag of the first block's predecessor
\* lies before the buffer: that read gives 0 (preZero, prev() is the block itself) or
\* any other value (prev() is below mMemory, Nil here).
prev(t, a, preZero) ==
    IF a - EndTagSize < 0 THEN (IF preZero THEN a ELSE Nil)
    ELSE a - t.tag[a - EndTagSize]
PrevReadable(t, a) == a - EndTagSize < 0 \/ (a - EndTagSize) \in DOMAIN t.tag

\* deallocate, lines 356-369: the block is put on the list of its class
insertFreeBlock(t, pBlock) ==
    LET size == t.hdr[pBlock].size
    IN IF ~ClassOK(size) THEN Fault(t)
       ELSE LET idx == ClassIndex(size)
                head == Slot(t, idx)
            IN IF head = Nil THEN registerFLI(SetSlot(t, idx, pBlock), size)
               ELSE LET t1 == SetHdr(t, head, [t.hdr[head] EXCEPT !.next = pBlock])
                        t2 == SetHdr(t1, pBlock, [t1.hdr[pBlock] EXCEPT !.pre = head,
                                                                         !.next = Nil])
                    IN registerFLI(t2, size)

\* TLSFAllocator::deallocate of the block whose memory was returned by allocate.
\* preZero: what the read before the buffer gives; endFree: whether the bytes read
\* where no block header lies (at the end of the buffer) look like a free block.
deallocate(t, pBlock, preZero, endFree) ==
    LET t1 == removeBlockFromList(SetHdr(t, pBlock, [t.hdr[pBlock] EXCEPT !.used = FALSE]),
                                  pBlock, Nil)
    IN IF t1.fault \/ ~PrevReadable(t1, pBlock) THEN Fault(t1)
       ELSE LET right == NextBlock(t1, pBlock)
                left == prev(t1, pBlock, preZero)
                rightInRange == right >= 0 /\ right <= mAllSize
                rightGarbage == rightInRange /\ ~HasHdr(t1, right)
                isRightFree == /\ rightInRange
                               /\ HasHdr(t1, right)
                               /\ ~t1.hdr[right].used
                               /\ t1.hdr[right].size # 0
                leftInRange == left # Nil /\ left <= mAllSize /\ left >= 0
            IN IF rightGarbage /\ endFree THEN Fault(t1)
               ELSE IF leftInRange /\ ~HasHdr(t1, left) THEN Fault(t1)
               ELSE LET isLeftFree == /\ leftInRange
                                      /\ ~t1.hdr[left].used
                                      /\ t1.hdr[left].size # 0
                        t2 == IF isRightFree
                              THEN LET u == removeBlockFromList(t1, right, Nil)
                                   IN IF u.fault THEN u ELSE merge(u, pBlock)
                              ELSE t1
                        t3 == IF isLeftFree /\ ~t2.fault
                              THEN LET u == removeBlockFromList(t2, left, pBlock)
                                   IN IF u.fault THEN u ELSE merge(u, left)
                              ELSE t2
                        last == IF isLeftFree THEN left ELSE pBlock
                    IN IF t3.fault THEN t3 ELSE insertFreeBlock(t3, last)

\* deallocate, lines 325-329: prev() reads the size tag that precedes the block; the
\* header at next() and the header at prev() are read when the pointer passes the
\* range test (which lets mMemory + mAllSize through)
inspected(t, pBlock, preZero) ==
    LET right == NextBlock(t, pBlock)
        left == IF PrevReadable(t, pBlock) THEN prev(t, pBlock, preZero) ELSE Nil
    IN  {[addr |-> pBlock - EndTagSize, len |-> EndTagSize]}
        \cup (IF right >= 0 /\ right <= mAllSize
                 THEN {[addr |-> right, len |-> HeaderSize]} ELSE {})
        \cup (IF left # Nil /\ left <= mAllSize /\ left >= 0
                 THEN {[addr |-> left, len |-> HeaderSize]} ELSE {})

\* the blocks of the buffer in address order, as the sizes in the headers chain them
RECURSIVE PhysFrom(_, _, _)
PhysFrom(t, a, fuel) ==
    IF a >= mAllSize \/ ~HasHdr(t, a) \/ fuel = 0 THEN {}
    ELSE {a} \cup PhysFrom(t, NextBlock(t, a), fuel - 1)
PhysBlocks(t) == PhysFrom(t, 0, mAllSize)

TlsfSizes == {16, 24, 60, mMaxSize - Overhead - 16, mMaxSize}

TlsfInit ==
    /\ tl = clearAll
    /\ tRet = Nil
    /\ tLive = {}
    /\ tFreed = {}
    /\ tLast = [op |-> "init", arg |-> 0]
    /\ tFailed = FALSE
    /\ tSeen = {}
    /\ tOps = 0

tlsfStep ==
    /\ ~tl.fault
    /\ tOps < MaxTlsfOps
    /\ tOps' = tOps + 1
    /\ UNCHANGED <<regVars, jobVars, arenaVars, appVars, raceVars>>

\* TLSFAllocator::allocate(n)
TlsfAllocateOf(n) ==
    LET r == allocate(tl, n)
    IN /\ tlsfStep
       /\ tl' = r.t
       /\ tRet' = r.ret
       /\ tLive' = IF r.ret # Nil THEN tLive \cup {r.ret} ELSE tLive
       /\ tFreed' = {}
       /\ tLast' = [op |-> "allocate", arg |-> n]
       /\ tFailed' = (tFailed \/ r.ret = Nil)
       /\ tSeen' = {}

TlsfAllocate == \E n \in TlsfSizes : TlsfAllocateOf(n)

\* requests that share a second-level class with a smaller request
NearSizes == {16, 60, 61, 100, 103}
TlsfAllocateNear == \E n \in NearSizes : TlsfAllocateOf(n)

\* TLSFAllocator::deallocate(p) with a pointer that allocate returned
TlsfDeallocate ==
    \E p \in tLive, preZero \in BOOLEAN, endFree \in BOOLEAN :
        /\ tlsfStep
        /\ tl' = deallocate(tl, p, preZero, endFree)
        /\ tRet' = Nil
        /\ tLive' = tLive \ {p}
        /\ tFreed' = tFreed \cup {[addr |-> p, size |-> tl.hdr[p].size]}
        /\ tLast' = [op |-> "deallocate", arg |-> p]
        /\ tSeen' = inspected(tl, p, preZero)
        /\ UNCHANGED tFailed

\* ---------------------------------------------------------------- arena allocator
\* An address is the memory a block points into (the external buffer is memory 1, the
\* n-th array obtained from operator new[] is memory n) and an offset; NoAddr is nullptr.
NoAddr == [mem |-> 0, off |-> 0]
ArenaByteSizes == {2, kBlockSize}
ArenaRequests == {1, 3, kBlockSize + 1}
\* what the operators new of one reallocate call do: both succeed, new std::byte[]
\* gives nullptr, or new MemoryBlock gives nullptr
NewOutcomes == {"ok", "noArena", "noBlock"}

Max(a, b) == IF a >= b THEN a ELSE b

\* ArenaAllocator::MemoryBlock
MemoryBlock(mem, size) == [pArena |-> mem, pCurrentPtr |-> 0, size |-> size]

\* reallocate without the test against mExternalMemoryCurrentSize
reallocateUnchecked(a, newBlockSize, new) ==
    IF a.external
    THEN IF new = "noBlock"
         THEN [a |-> a, ok |-> FALSE]
         ELSE [a |-> [a EXCEPT !.mExternalMemoryCurrentSize = @ - newBlockSize,
                               !.chain = <<MemoryBlock(1, newBlockSize)>> \o @],
               ok |-> TRUE]
    ELSE IF new = "noBlock" THEN [a |-> [a EXCEPT !.fault = TRUE], ok |-> FALSE]
         ELSE IF new = "noArena" THEN [a |-> a, ok |-> FALSE]
         ELSE [a |-> [a EXCEPT !.chain = <<MemoryBlock(a.arrays + 1, newBlockSize)>> \o @,
                               !.arrays = @ + 1],
               ok |-> TRUE]

\* ArenaAllocator::reallocate; r = [a, ok]
reallocate(a, newBlockSize, new) ==
    IF a.external
    THEN IF new = "noBlock" \/ newBlockSize > a.mExternalMemoryCurrentSize
         THEN [a |-> a, ok |-> FALSE]
         ELSE [a |-> [a EXCEPT !.mExternalMemoryCurrentSize = @ - newBlockSize,
                               !.chain = <<MemoryBlock(1, newBlockSize)>> \o @],
               ok |-> TRUE]
    ELSE IF new = "noBlock" THEN [a |-> [a EXCEPT !.fault = TRUE], ok |-> FALSE]
         ELSE IF new = "noArena" THEN [a |-> a, ok |-> FALSE]
         ELSE [a |-> [a EXCEPT !.chain = <<MemoryBlock(a.arrays + 1, newBlockSize)>> \o @,
                               !.arrays = @ + 1],
               ok |-> TRUE]

\* ArenaAllocator::ArenaAllocator(byteSize) and ArenaAllocator(pMemory, memoryByteSize),
\* when their reallocate call succeeds
NewArena(external, byteSize) ==
    reallocate([external |-> external,
                mExternalMemoryCurrentSize |-> IF external THEN byteSize ELSE 0,
                chain |-> <<>>, arrays |-> 0, fault |-> FALSE],
               byteSize, "ok").a

\* no ArenaAllocator object exists yet
NoArena ==
    [external |-> FALSE, mExternalMemoryCurrentSize |-> 0, chain |-> <<>>, arrays |-> 0,
     fault |-> FALSE]

\* "mpHead->pCurrentPtr + numBytes > mpHead->pArena + mpHead->size" is false
Fits(a, numBytes) == a.chain[1].pCurrentPtr + numBytes <= a.chain[1].size

\* ArenaAllocator::allocate; r = [a, ret]
arenaAllocate(a, numBytes, new) ==
    LET r == IF Fits(a, numBytes) THEN [a |-> a, ok |-> TRUE]
             ELSE reallocate(a, Max(kBlockSize, numBytes), new)
    IN IF ~r.ok THEN [a |-> r.a, ret |-> NoAddr]
       ELSE [a |-> [r.a EXCEPT !.chain[1].pCurrentPtr = @ + numBytes],
             ret |-> [mem |-> r.a.chain[1].pArena, off |-> r.a.chain[1].pCurrentPtr]]

\* ArenaAllocator::reset
arenaReset(a) ==
    [a EXCEPT !.chain = [i \in 1 .. Len(a.chain) |-> [a.chain[i] EXCEPT !.pCurrentPtr = 0]]]

ArenaInit ==
    /\ ar = NoArena
    /\ aRet = NoAddr
    /\ aLast = [op |-> "init", n |-> 0, fit |-> TRUE, new |-> "ok"]
    /\ aFirst = {}
    /\ aHist = <<>>
    /\ aPrevHist = <<>>
    /\ aBlocksAtReset = 0
    /\ aResets = 0
    /\ aOom = FALSE
    /\ aOps = 0

\* ArenaAllocator(byteSize) / ArenaAllocator(pMemory, memoryByteSize)
ArenaConstruct ==
    /\ ar = NoArena
    /\ \E external \in BOOLEAN, byteSize \in ArenaByteSizes :
           ar' = NewArena(external, byteSize)
    /\ aLast' = [op |-> "construct", n |-> 0, fit |-> TRUE, new |-> "ok"]
    /\ UNCHANGED <<aRet, aFirst, aHist, aPrevHist, aBlocksAtReset, aResets, aOom, aOps>>
    /\ UNCHANGED <<regVars, jobVars, tlsfVars, appVars, raceVars>>

arenaStep ==
    /\ ar # NoArena
    /\ ~ar.fault
    /\ aOps < MaxArenaOps
    /\ aOps' = aOps + 1
    /\ UNCHANGED <<regVars, jobVars, tlsfVars, appVars, raceVars>>

\* ArenaAllocator::allocate(numBytes)
ArenaAllocate ==
    \E n \in ArenaRequests, new \in NewOutcomes :
        LET r == arenaAllocate(ar, n, new)
            newUsed == ~Fits(ar, n)
        IN /\ arenaStep
           /\ newUsed \/ new = "ok"
           /\ ar' = r.a
           /\ aRet' = r.ret
           /\ aLast' = [op |-> "allocate", n |-> n, fit |-> Fits(ar, n), new |-> new]
           /\ aFirst' = IF aFirst = {} /\ aResets = 0 /\ aHist = <<>>
                        THEN {[n |-> n, addr |-> r.ret]} ELSE aFirst
           /\ aHist' = Append(aHist, n)
           /\ aOom' = (aOom \/ (newUsed /\ new # "ok"))
           /\ UNCHANGED <<aPrevHist, aBlocksAtReset, aResets>>

\* ArenaAllocator::reset()
ArenaReset ==
    /\ arenaStep
    /\ ar' = arenaReset(ar)
    /\ aRet' = NoAddr
    /\ aLast' = [op |-> "reset", n |-> 0, fit |-> TRUE, new |-> "ok"]
    /\ aPrevHist' = aHist
    /\ aHist' = <<>>
    /\ aBlocksAtReset' = Len(ar.chain)
    /\ aResets' = aResets + 1
    /\ UNCHANGED <<aFirst, aOom>>

\* ---------------------------------------------------------------- application

\* the keys registered with addState
Keys == {"Initial", "State1", "State2"}

\* a default-constructed (key, instance) pair: the instance pointer is null
NoState == [key |-> "", inst |-> 0]

\* std::optional mCache is the empty set or a singleton
Application ==
    [inited |-> FALSE, mCurrent |-> NoState, mCache |-> {},
     mChangedFlag |-> FALSE, mEndFlag |-> FALSE]

AppInit ==
    /\ app = Application
    /\ insts = <<>>
    /\ appLast = [op |-> "construct", call |-> [op |-> "none", dst |-> "", cache |-> FALSE],
                  pre |-> Application, n |-> 0]
    /\ appOps = 0

\* mStatesFactory[key](): a new instance, not yet initialised
make(is, key) == Append(is, [key |-> key, inits |-> 0, updates |-> 0, early |-> FALSE])

\* State::init() of instance i
initState(is, i) == [is EXCEPT ![i].inits = @ + 1]

\* State::update() of instance i (early: it ran before any init())
updateState(is, i) ==
    [is EXCEPT ![i].updates = @ + 1, ![i].early = @ \/ is[i].inits = 0]

\* a changeState that never looks at the cache
changeStateFromFactory(a, is, dstStateKey, cachePrevState) ==
    [app |-> [a EXCEPT !.mCurrent = [key |-> dstStateKey, inst |-> Len(is) + 1],
                       !.mCache = IF cachePrevState THEN {a.mCurrent} ELSE a.mCache,
                       !.mChangedFlag = TRUE],
     insts |-> make(is, dstStateKey)]

\* Application::changeState
changeState(a, is, dstStateKey, cachePrevState) ==
    LET cache == IF cachePrevState THEN {a.mCurrent} ELSE a.mCache
    IN  IF \E c \in cache : dstStateKey = c.key
        THEN [app |-> [a EXCEPT !.mCurrent = CHOOSE c \in cache : TRUE,
                               !.mCache = {},
                               !.mChangedFlag = TRUE],
              insts |-> is]
        ELSE [app |-> [a EXCEPT !.mCurrent = [key |-> dstStateKey, inst |-> Len(is) + 1],
                               !.mCache = cache,
                               !.mChangedFlag = TRUE],
              insts |-> make(is, dstStateKey)]

\* what the update() of a user's State does with the Application
Behaviours ==
    {[op |-> "none", dst |-> "", cache |-> FALSE],
     [op |-> "exitApplication", dst |-> "", cache |-> FALSE]}
    \cup [op : {"changeState"}, dst : Keys, cache : BOOLEAN]

appStep ==
    /\ appOps < MaxAppOps
    /\ appOps' = appOps + 1
    /\ UNCHANGED <<regVars, jobVars, tlsfVars, arenaVars, raceVars>>

\* Application::init(firstStateKey)
ApplicationInit ==
    /\ appStep
    /\ ~app.inited
    /\ \E firstStateKey \in Keys :
           /\ app' = [app EXCEPT !.inited = TRUE, !.mEndFlag = FALSE,
                                 !.mCurrent = [key |-> firstStateKey,
                                               inst |-> Len(insts) + 1]]
           /\ insts' = initState(make(insts, firstStateKey), Len(insts) + 1)
           /\ appLast' = [op |-> "init",
                          call |-> [op |-> "none", dst |-> firstStateKey, cache |-> FALSE],
                          pre |-> app, n |-> Len(insts)]

\* Application::update(), with the current State's update() doing b
ApplicationUpdate ==
    /\ appStep
    /\ app.inited
    /\ \E b \in Behaviours :
           LET cur == app.mCurrent.inst
               is1 == IF app.mChangedFlag THEN initState(insts, cur) ELSE insts
               a1  == [app EXCEPT !.mChangedFlag = FALSE]
               is2 == updateState(is1, cur)
               r   == IF b.op = "changeState"
                          THEN changeState(a1, is2, b.dst, b.cache)
                      ELSE IF b.op = "exitApplication"
                          THEN [app |-> [a1 EXCEPT !.mEndFlag = TRUE], insts |-> is2]
                      ELSE [app |-> a1, insts |-> is2]
           IN  /\ app' = r.app
               /\ insts' = r.insts
               /\ appLast' = [op |-> "update", call |-> b, pre |-> a1, n |-> Len(is2)]

\* Application::changeState(dstStateKey, cachePrevState) called from outside a State
ApplicationChangeState ==
    /\ appStep
    /\ app.inited
    /\ \E dstStateKey \in Keys, cachePrevState \in BOOLEAN :
           LET r == changeState(app, insts, dstStateKey, cachePrevState)
           IN  /\ app' = r.app
               /\ insts' = r.insts
               /\ appLast' = [op |-> "changeState",
                              call |-> [op |-> "changeState", dst |-> dstStateKey,
                                        cache |-> cachePrevState],
                              pre |-> app, n |-> Len(insts)]

\* two threads, each with a Registry of its own, run each() of a view of one type
\* through the same instantiation of View::invokeIfValidEntity
Threads == {1, 2}

\* what a read of mPacked behind its end gives
Garbage == 0

ThreadsInit ==
    /\ th = [t \in Threads |-> [pool |-> EmptyPool, pc |-> "build", k |-> 0, calls |-> <<>>]]
    /\ sparseIndices = 0

\* ---------------------------------------------------------------- registry
NoComp == [T \in Types |-> [e \in Handles |-> NoValue]]

RegistryInit ==
    /\ mNextEntity = 0
    /\ mFreedEntities = <<>>
    /\ pools = [T \in Types |-> EmptyPool]
    /\ group = [alive |-> FALSE, size |-> 0]
    /\ ret = NoValue
    /\ lastOp = "init"
    /\ visited = <<>>
    /\ viewI = <<>>
    /\ viewX = {}
    /\ viewT = <<>>
    /\ live = {}
    /\ returned = {}
    /\ destroyed = {}
    /\ comp = NoComp
    /\ ub = FALSE
    /\ lastSort = [T |-> "", cmp |-> "", ok |-> FALSE]
    /\ lastAdd = [T |-> "", entity |-> NewEntity(0), pools |-> [T \in Types |-> EmptyPool]]
    /\ blank = {}
    /\ lastGet = [T |-> "", entity |-> NewEntity(0), result |-> ""]
    /\ lastSwap = [T |-> "", left |-> NewEntity(0), right |-> NewEntity(0),
                   pre |-> EmptyPool]
    /\ lastRemove = [T |-> "", entity |-> NewEntity(0),
                     pools |-> [T \in Types |-> EmptyPool], group |-> [alive |-> FALSE, size |-> 0]]
    /\ ops = 0

Init == RegistryInit /\ JobInit /\ TlsfInit /\ ArenaInit /\ AppInit /\ ThreadsInit

NoSort == [T |-> "", cmp |-> "", ok |-> FALSE]
NoAdd == [T |-> "", entity |-> NewEntity(0), pools |-> [T \in Types |-> EmptyPool]]
noView ==
    /\ visited' = <<>> /\ viewI' = <<>> /\ viewX' = {} /\ viewT' = <<>>
    /\ lastSort' = NoSort /\ lastAdd' = NoAdd

NoGet == [T |-> "", entity |-> NewEntity(0), result |-> ""]

NoSwap == [T |-> "", left |-> NewEntity(0), right |-> NewEntity(0), pre |-> EmptyPool]

\* every operation: the program has not faulted, and the history is within MaxOps
invoked == ~ub /\ ops < MaxOps /\ ops' = ops + 1 /\ UNCHANGED <<jobVars, memVars>>

NoRemove == [T |-> "", entity |-> NewEntity(0),
             pools |-> [T \in Types |-> EmptyPool], group |-> [alive |-> FALSE, size |-> 0]]

\* every operation but a swap on a pool and a remove
called == invoked /\ lastSwap' = NoSwap /\ lastRemove' = NoRemove

\* every operation but get: mComponentArrayMap gets no empty entry
step == called /\ blank' = blank /\ lastGet' = NoGet

\* Registry::create
\* create() that recycles the most recently destroyed handle
CreateFromBack ==
    /\ step
    /\ IF mFreedEntities = <<>>
       THEN /\ mNextEntity < MaxIndex
            /\ ret' = {NewEntity(mNextEntity)}
            /\ mNextEntity' = mNextEntity + 1
            /\ UNCHANGED mFreedEntities
       ELSE /\ mFreedEntities[Len(mFreedEntities)].gen < MaxGen
            /\ ret' = {spinEntitySlot(mFreedEntities[Len(mFreedEntities)])}
            /\ mFreedEntities' = SubSeq(mFreedEntities, 1, Len(mFreedEntities) - 1)
            /\ UNCHANGED mNextEntity
    /\ live' = live \cup ret'
    /\ returned' = returned \cup ret'
    /\ lastOp' = "create"
    /\ noView
    /\ UNCHANGED <<pools, group, destroyed, comp, ub>>

Create ==
    /\ step
    /\ IF mFreedEntities = <<>>
       THEN /\ mNextEntity < MaxIndex
            /\ ret' = {NewEntity(mNextEntity)}
            /\ mNextEntity' = mNextEntity + 1
            /\ UNCHANGED mFreedEntities
       ELSE /\ Head(mFreedEntities).gen < MaxGen
            /\ ret' = {spinEntitySlot(Head(mFreedEntities))}
            /\ mFreedEntities' = Tail(mFreedEntities)
            /\ UNCHANGED mNextEntity
    /\ live' = live \cup ret'
    /\ returned' = returned \cup ret'
    /\ lastOp' = "create"
    /\ noView
    /\ UNCHANGED <<pools, group, destroyed, comp, ub>>

\* Registry::destroy: remove from every pool, then queue the handle
DestroyBody(entity) ==
    /\ step
    /\ Len(mFreedEntities) < MaxFreed
    /\ IF \E T \in Types : pools[T].exists /\ Faulty(pools[T], entity)
       THEN ub' = TRUE /\ UNCHANGED <<pools, mFreedEntities>>
       ELSE /\ pools' = [T \in Types |->
                            IF pools[T].exists THEN Remove(pools[T], entity) ELSE pools[T]]
            /\ mFreedEntities' = Append(mFreedEntities, entity)
            /\ UNCHANGED ub
    /\ destroyed' = IF entity \in live THEN destroyed \cup {entity} ELSE destroyed
    /\ live' = live \ {entity}
    /\ comp' = [T \in Types |-> [comp[T] EXCEPT ![entity] = NoValue]]
    /\ lastOp' = "destroy"
    /\ noView
    /\ UNCHANGED <<mNextEntity, group, ret, returned>>

\* destroy of a live entity
Destroy == \E entity \in live : DestroyBody(entity)

\* destroy of a handle that is not live (already destroyed, or never created)
DestroyNotLive == \E entity \in Handles \ live : DestroyBody(entity)

\* Registry::add<T>(entity, v) on a live entity that has no T yet
Add ==
    \E T \in Types \ blank, entity \in live, v \in Values :
        /\ step
        /\ comp[T][entity] = NoValue
        /\ LET ss == Emplace([pools[T] EXCEPT !.exists = TRUE], entity, v)
               r0 == [pools |-> [pools EXCEPT ![T] = ss], size |-> group.size, ub |-> FALSE]
               r == IF Watched(T) THEN checkAddedImpl(r0, entity) ELSE r0
           IN IF r.ub
              THEN ub' = TRUE /\ UNCHANGED <<pools, group>>
              ELSE /\ pools' = r.pools
                   /\ group' = [group EXCEPT !.size = r.size]
                   /\ UNCHANGED ub
        /\ comp' = [comp EXCEPT ![T][entity] = {v}]
        /\ lastOp' = "add"
        /\ visited' = <<>> /\ viewI' = <<>> /\ viewX' = {} /\ viewT' = <<>> /\ lastSort' = NoSort
        /\ lastAdd' = [T |-> T, entity |-> entity, pools |-> pools]
        /\ UNCHANGED <<mNextEntity, mFreedEntities, ret, live, returned, destroyed>>

\* Registry::add<T>(entity, v) on a live entity that already has T
AddAgain ==
    \E T \in Types, entity \in live, v \in Values :
        /\ step
        /\ comp[T][entity] # NoValue
        /\ LET ss == Emplace([pools[T] EXCEPT !.exists = TRUE], entity, v)
               r0 == [pools |-> [pools EXCEPT ![T] = ss], size |-> group.size, ub |-> FALSE]
               r == IF Watched(T) THEN checkAddedImpl(r0, entity) ELSE r0
           IN IF r.ub
              THEN ub' = TRUE /\ UNCHANGED <<pools, group>>
              ELSE /\ pools' = r.pools
                   /\ group' = [group EXCEPT !.size = r.size]
                   /\ UNCHANGED ub
        /\ comp' = [comp EXCEPT ![T][entity] = {v}]
        /\ lastOp' = "addAgain"
        /\ noView
        /\ UNCHANGED <<mNextEntity, mFreedEntities, ret, live, returned, destroyed>>

\* remove<T>(entity) that returns without erasing anything
RemoveComponentSkipped ==
    \E T \in Types, entity \in Handles :
        /\ step
        /\ UNCHANGED <<pools, group, ub>>
        /\ comp' = [comp EXCEPT ![T][entity] = NoValue]
        /\ lastOp' = "remove"
        /\ visited' = <<>> /\ viewI' = <<>> /\ viewX' = {} /\ viewT' = <<>> /\ lastSort' = NoSort
        /\ lastAdd' = IF lastOp = "add" /\ lastAdd.T = T /\ lastAdd.entity = entity
                      THEN lastAdd ELSE NoAdd
        /\ UNCHANGED <<mNextEntity, mFreedEntities, ret, live, returned, destroyed>>

\* Registry::remove<T>(entity), any handle
RemoveComponentOf(T, entity, noted) ==
    /\ invoked /\ lastSwap' = NoSwap /\ blank' = blank /\ lastGet' = NoGet
    /\ lastRemove' = IF noted
                     THEN [T |-> T, entity |-> entity, pools |-> pools, group |-> group]
                     ELSE NoRemove
    /\ IF ~pools[T].exists
       THEN UNCHANGED <<pools, group, ub>>
       ELSE LET r0 == [pools |-> pools, size |-> group.size, ub |-> FALSE]
                r == IF Watched(T) THEN checkRemovedImpl(r0, entity) ELSE r0
            IN IF r.ub \/ Faulty(r.pools[T], entity)
               THEN ub' = TRUE /\ UNCHANGED <<pools, group>>
               ELSE /\ pools' = [r.pools EXCEPT ![T] = Remove(r.pools[T], entity)]
                    /\ group' = [group EXCEPT !.size = r.size]
                    /\ UNCHANGED ub
    /\ comp' = [comp EXCEPT ![T][entity] = NoValue]
    /\ lastOp' = "remove"
    /\ visited' = <<>> /\ viewI' = <<>> /\ viewX' = {} /\ viewT' = <<>> /\ lastSort' = NoSort
    /\ lastAdd' = IF lastOp = "add" /\ lastAdd.T = T /\ lastAdd.entity = entity
                  THEN lastAdd ELSE NoAdd
    /\ UNCHANGED <<mNextEntity, mFreedEntities, ret, live, returned, destroyed>>

RemoveComponent ==
    \E T \in Types \ blank, entity \in Handles : RemoveComponentOf(T, entity, FALSE)

\* the same call, followed up
RemoveComponentNoted ==
    \E T \in Types \ blank, entity \in Handles : RemoveComponentOf(T, entity, TRUE)

\* the outcomes of reading a vector out of range: the checked vector aborts, the
\* unchecked one yields a reference to whatever lies there
OutOfRange == {"abort", "ref"}

\* StackAny::get<T> of an empty StackAny: the exception, or the failed assert
BadCast == {"throw", "abort"}

\* Registry::get<T>(entity), any handle: mComponentArrayMap[hash] makes an empty entry
\* for a type without pool, SparseSet::operator[] reads mPacked[mSparseIndices[index]]
Get ==
    \E T \in Types, entity \in Handles :
        /\ called
        /\ IF ~pools[T].exists
           THEN /\ blank' = blank \cup {T}
                /\ \E o \in BadCast : lastGet' = [T |-> T, entity |-> entity, result |-> o]
           ELSE /\ blank' = blank
                /\ LET index == getEntityIndex(entity)
                   IN IF \/ index >= Len(pools[T].sparse)
                         \/ At(pools[T].sparse, index) = kTombstone
                         \/ At(pools[T].sparse, index) >= Len(pools[T].packed)
                      THEN \E o \in OutOfRange :
                               lastGet' = [T |-> T, entity |-> entity, result |-> o]
                      ELSE lastGet' = [T |-> T, entity |-> entity, result |-> "ref"]
        /\ lastOp' = "get"
        /\ noView
        /\ UNCHANGED <<mNextEntity, mFreedEntities, pools, group, ret, live, returned,
                       destroyed, comp, ub>>

\* add<T> / remove<T> for a type whose entry is an empty StackAny: StackAny::get<T>
\* does not return
Throws ==
    \E T \in blank :
        /\ step
        /\ lastOp' = "throw"
        /\ noView
        /\ UNCHANGED <<mNextEntity, mFreedEntities, pools, group, ret, live, returned,
                       destroyed, comp, ub>>

\* size<T>, contains<T>, add<T> and remove<T> find the entry of T in mComponentArrayMap
\* and call StackAny::get<SparseSet<T>> on it, which raises for an empty StackAny
Raises(T) == T \in blank

\* Registry::size<T> when it returns
RegistrySize(T) == IF pools[T].exists THEN Len(pools[T].packed) ELSE 0

\* the dense positions of a pool, and the pool's two index arrays agreeing on them
Positions(p) == 0 .. (Len(p.dense) - 1)
Coherent(p) ==
    /\ Len(p.dense) = Len(p.packed)
    /\ \A i \in Positions(p) :
           /\ getEntityIndex(At(p.dense, i)) < Len(p.sparse)
           /\ At(p.sparse, getEntityIndex(At(p.dense, i))) = i

\* ISparseSet::swap; swapPackedElements, which SparseSet.hpp does not implement, is
\* taken to exchange the two elements of mPacked
ISparseSetSwap(p, left, right) ==
    LET leftIndex == getEntityIndex(left)
        rightIndex == getEntityIndex(right)
    IN IF leftIndex >= Len(p.sparse) \/ rightIndex >= Len(p.sparse) THEN p
       ELSE LET leftSparseIndex == At(p.sparse, leftIndex)
                rightSparseIndex == At(p.sparse, rightIndex)
            IN IF \/ leftSparseIndex = kTombstone
                  \/ rightSparseIndex = kTombstone
                  \/ getEntitySlot(At(p.dense, leftSparseIndex)) # getEntitySlot(left)
                  \/ getEntitySlot(At(p.dense, rightSparseIndex)) # getEntitySlot(right)
               THEN p
               ELSE [p EXCEPT
                       !.dense = SwapAt(p.dense, leftSparseIndex, rightSparseIndex),
                       !.packed = SwapAt(p.packed, leftSparseIndex, rightSparseIndex),
                       !.sparse = Put(Put(p.sparse, leftIndex, rightSparseIndex),
                                      rightIndex, leftSparseIndex)]

\* a call of swap(left, right) on the pool of T: which of the two functions named swap
\* runs, and what it does to the pool
SwapBody(derived) ==
    \E T \in Types \ blank, left \in Handles, right \in Handles :
        /\ invoked
        /\ pools[T].exists
        /\ Coherent(pools[T])
        /\ IF derived
           THEN IF left = right \/ SwapInRange(pools[T], left, right)
                THEN /\ pools' = [pools EXCEPT ![T] = SparseSetSwap(pools[T], left, right)]
                     /\ UNCHANGED ub
                ELSE ub' = TRUE /\ UNCHANGED pools
           ELSE /\ pools' = [pools EXCEPT ![T] = ISparseSetSwap(pools[T], left, right)]
                /\ UNCHANGED ub
        /\ lastSwap' = [T |-> T, left |-> left, right |-> right, pre |-> pools[T]]
        /\ lastOp' = "swap"
        /\ blank' = blank /\ lastGet' = NoGet /\ lastRemove' = NoRemove
        /\ noView
        /\ UNCHANGED <<mNextEntity, mFreedEntities, group, ret, live, returned,
                       destroyed, comp>>

\* pool.swap(left, right) through SparseSet<T>, as Group::iterateTupleAndSwap calls it:
\* SparseSet::swap hides ISparseSet::swap
Swap == SwapBody(TRUE)

\* swap(left, right) through a reference to ISparseSet
SwapThroughBase == SwapBody(FALSE)

\* Registry::activeEntityNum: the difference is taken in std::size_t, a negative value
\* d here stands for 2^64 + d
activeEntityNum == mNextEntity - Len(mFreedEntities)

\* Registry::clear
Clear ==
    /\ step
    /\ pools' = [T \in Types |-> IF pools[T].exists THEN ClearPool(pools[T]) ELSE pools[T]]
    /\ mFreedEntities' = <<>>
    /\ comp' = NoComp
    /\ lastOp' = "clear"
    /\ noView
    /\ UNCHANGED <<mNextEntity, group, ret, live, returned, destroyed, ub>>

\* Registry::checkAndAddNewComponent for a list of included types
checkAndAddNewComponent(ps, I) ==
    [T \in Types |-> IF \E k \in 1 .. Len(I) : I[k] = T
                     THEN [ps[T] EXCEPT !.exists = TRUE] ELSE ps[T]]

\* Registry::group<A, B>() when no live group watches A or B, and Group::Group
GroupCreate ==
    /\ step
    /\ ~group.alive
    /\ LET ps == checkAndAddNewComponent(pools, GroupTypes)
           minT == GroupTypes[searchMinGroupPool(ps, 1, 0)]
           r == groupCtorLoop([pools |-> ps, size |-> 0, ub |-> FALSE],
                              minT, 0, Len(ps[minT].dense))
       IN IF r.ub
          THEN ub' = TRUE /\ UNCHANGED <<pools, group>>
          ELSE /\ pools' = r.pools
               /\ group' = [alive |-> TRUE, size |-> r.size]
               /\ UNCHANGED ub
    /\ lastOp' = "group"
    /\ noView
    /\ UNCHANGED <<mNextEntity, mFreedEntities, ret, live, returned, destroyed, comp>>

\* the argument lists of the group<...>() requests that are made
GroupArgs == {<<"A", "B">>, <<"B", "A">>, <<"A", "C">>, <<"C", "B">>, <<"A", "B", "C">>}

\* Registry::checkGroup<Args...>
checkGroup(I) == \A k \in 1 .. Len(I) : ~Watched(I[k])

\* group<Args...>() that builds the group over again although checkGroup fails
GroupGranted ==
    \E I \in GroupArgs :
        /\ step
        /\ ~checkGroup(I)
        /\ LET ps == checkAndAddNewComponent(pools, I)
               minT == GroupTypes[searchMinGroupPool(ps, 1, 0)]
               r == groupCtorLoop([pools |-> ps, size |-> 0, ub |-> FALSE],
                                  minT, 0, Len(ps[minT].dense))
           IN /\ pools' = r.pools
              /\ group' = [alive |-> TRUE, size |-> r.size]
              /\ ub' = r.ub
        /\ lastOp' = "group"
        /\ noView
        /\ UNCHANGED <<mNextEntity, mFreedEntities, ret, live, returned, destroyed, comp>>

\* Registry::group<Args...>() when a live group watches one of Args: std::nullopt
GroupRejected ==
    \E I \in GroupArgs :
        /\ step
        /\ ~checkGroup(I)
        /\ pools' = checkAndAddNewComponent(pools, I)
        /\ lastOp' = "nullopt"
        /\ noView
        /\ UNCHANGED <<mNextEntity, mFreedEntities, group, ret, live, returned, destroyed,
                       comp, ub>>

\* Group::~Group
GroupDestroy ==
    /\ step
    /\ group.alive
    /\ group' = [alive |-> FALSE, size |-> 0]
    /\ lastOp' = "ungroup"
    /\ noView
    /\ UNCHANGED <<mNextEntity, mFreedEntities, pools, ret, live, returned, destroyed,
                   comp, ub>>

\* sort<T> without the test of mpGroupMap
SortIgnoringGroup ==
    \E T \in Types, cmp \in Predicates :
        /\ step
        /\ IF ~pools[T].exists
           THEN /\ lastSort' = [T |-> T, cmp |-> cmp, ok |-> FALSE]
                /\ UNCHANGED <<pools, ub>>
           ELSE LET r == SparseSetSort(pools[T], cmp)
                IN IF r.ub
                   THEN /\ ub' = TRUE
                        /\ lastSort' = [T |-> T, cmp |-> cmp, ok |-> FALSE]
                        /\ UNCHANGED pools
                   ELSE /\ pools' = [pools EXCEPT ![T] = r.p]
                        /\ lastSort' = [T |-> T, cmp |-> cmp, ok |-> TRUE]
                        /\ UNCHANGED ub
        /\ lastOp' = "sort"
        /\ visited' = <<>> /\ viewI' = <<>> /\ viewX' = {} /\ viewT' = <<>> /\ lastAdd' = NoAdd
        /\ UNCHANGED <<mNextEntity, mFreedEntities, group, ret, live, returned, destroyed,
                       comp>>

\* Registry::sort<T>(predicate)
Sort ==
    \E T \in Types, cmp \in Predicates :
        /\ step
        /\ IF Watched(T) \/ ~pools[T].exists
           THEN /\ lastSort' = [T |-> T, cmp |-> cmp, ok |-> FALSE]
                /\ UNCHANGED <<pools, ub>>
           ELSE LET r == SparseSetSort(pools[T], cmp)
                IN IF r.ub
                   THEN /\ ub' = TRUE
                        /\ lastSort' = [T |-> T, cmp |-> cmp, ok |-> FALSE]
                        /\ UNCHANGED pools
                   ELSE /\ pools' = [pools EXCEPT ![T] = r.p]
                        /\ lastSort' = [T |-> T, cmp |-> cmp, ok |-> TRUE]
                        /\ UNCHANGED ub
        /\ lastOp' = "sort"
        /\ visited' = <<>> /\ viewI' = <<>> /\ viewX' = {} /\ viewT' = <<>> /\ lastAdd' = NoAdd
        /\ UNCHANGED <<mNextEntity, mFreedEntities, group, ret, live, returned, destroyed,
                       comp>>

\* ---------------------------------------------------------------- view
Range(q) == {q[k] : k \in 1 .. Len(q)}
\* include lists: one to three distinct component types, in template order
ViewIncludes ==
    {q \in UNION {[1 .. n -> Types] : n \in 1 .. 3} :
        \A j, k \in 1 .. Len(q) : j # k => q[j] # q[k]}

\* SparseSet::getSparseIndexIfValid (the boolean it returns)
getSparseIndexIfValid(p, e) ==
    LET index == getEntityIndex(e)
    IN /\ index < Len(p.sparse)
       /\ At(p.sparse, index) # kTombstone
       /\ At(p.sparse, index) < Len(p.packed)

\* View::searchMinSizeSparseSet: the pivot type, scanning I[N..] with the running minimum
RECURSIVE searchMinSizeSparseSet(_, _, _, _, _)
searchMinSizeSparseSet(ps, I, N, nowMin, hash) ==
    IF N > Len(I) THEN hash
    ELSE LET size == Len(ps[I[N]].dense)
         IN IF nowMin <= size
            THEN searchMinSizeSparseSet(ps, I, N + 1, nowMin, hash)
            ELSE searchMinSizeSparseSet(ps, I, N + 1, size, I[N])

\* the exclusion filter of the view: some excluded pool contains the entity
Excluded(ps, X, e) == \E T \in X : Contains(ps[T], e)

\* View::invokeIfValidEntity with the validity test (the continue) left out
invokeEveryEntity(ps, I, X, entities) ==
    [k \in 1 .. Len(entities) |-> [entity |-> entities[k], args |-> <<>>]]

\* View::invokeIfValidEntity over the pivot's dense entities: the callback's arguments
invokeIfValidEntity(ps, I, X, entities) ==
    LET valid(e) == /\ \A k \in 1 .. Len(I) : getSparseIndexIfValid(ps[I[k]], e)
                    /\ ~Excluded(ps, X, e)
        call(e) == [entity |-> e,
                    args |-> [k \in 1 .. Len(I) |->
                                 At(ps[I[k]].packed, At(ps[I[k]].sparse, getEntityIndex(e)))]]
        hits == SelectSeq(entities, valid)
    IN [k \in 1 .. Len(hits) |-> call(hits[k])]

\* View::each / View::invokeByMinSizeSparseSet
ViewEach(ps, I, X) ==
    LET pivot == searchMinSizeSparseSet(ps, I, 2, Len(ps[I[1]].dense), I[1])
    IN invokeIfValidEntity(ps, I, X, ps[pivot].dense)

\* Registry::view<I..., Exclude<X>...>().each(fn), and Registry::each<I...>(fn)
\* View::each<Target...>: the dense entities of the smallest of the view's pools,
\* tested against the pools of the target types only (targetTuple)
ViewEachTarget(ps, I, Target) ==
    LET pivot == searchMinSizeSparseSet(ps, I, 2, Len(ps[I[1]].dense), I[1])
    IN invokeIfValidEntity(ps, Target, {}, ps[pivot].dense)

\* views of two types, as main's view<A, C>
PairIncludes == {q \in ViewIncludes : Len(q) = 2}

\* view<I...>().each<Target...>(fn)
EachTarget ==
    \E I \in PairIncludes, Target \in ViewIncludes :
        /\ Range(Target) \subseteq Range(I)
        /\ step
        /\ pools' = checkAndAddNewComponent(pools, I)
        /\ visited' = ViewEachTarget(pools', I, Target)
        /\ viewI' = I
        /\ viewX' = {} /\ viewT' = Target
        /\ lastSort' = NoSort /\ lastAdd' = NoAdd
        /\ lastOp' = "eachTarget"
        /\ UNCHANGED <<mNextEntity, mFreedEntities, group, ret, live, returned,
                       destroyed, comp, ub>>

Each ==
    \E I \in ViewIncludes :
        \E X \in SUBSET (Types \ Range(I)) :
            /\ step
            /\ pools' = checkAndAddNewComponent(pools, I)
            /\ visited' = ViewEach(pools', I, X)
            /\ viewI' = I
            /\ viewX' = X /\ viewT' = <<>>
            /\ lastSort' = NoSort /\ lastAdd' = NoAdd
            /\ lastOp' = "each"
            /\ UNCHANGED <<mNextEntity, mFreedEntities, group, ret, live, returned,
                           destroyed, comp, ub>>

\* ---------------------------------------------------------------- views on two threads

threadStep == UNCHANGED <<regVars, jobVars, tlsfVars, arenaVars, appVars>>

\* the thread fills its registry: create() and add<T>(entity, v)
ThreadAdd(t) ==
    /\ th[t].pc = "build"
    /\ Len(th[t].pool.dense) < MaxElems
    /\ \E v \in Values :
           th' = [th EXCEPT ![t].pool =
                      Emplace(th[t].pool, NewEntity(Len(th[t].pool.dense)), v)]
    /\ UNCHANGED sparseIndices
    /\ threadStep

\* view.each(func): the loop over the dense entities of the pool starts
ThreadEach(t) ==
    /\ th[t].pc = "build"
    /\ th' = [th EXCEPT ![t].pc = IF Len(th[t].pool.dense) = 0 THEN "done" ELSE "test",
                        ![t].k = 1]
    /\ UNCHANGED sparseIndices
    /\ threadStep

\* the last entity has been handled
endOfLoop(t, r) ==
    IF r.k >= Len(r.pool.dense) THEN [r EXCEPT !.pc = "done"]
    ELSE [r EXCEPT !.pc = "test", !.k = r.k + 1]

\* getSparseIndexIfValid(entity, sparseIndices[I]): writes the static array
ThreadTest(t) ==
    /\ th[t].pc = "test"
    /\ LET entity == th[t].pool.dense[th[t].k]
       IN IF getSparseIndexIfValid(th[t].pool, entity)
          THEN /\ sparseIndices' = At(th[t].pool.sparse, getEntityIndex(entity))
               /\ th' = [th EXCEPT ![t].pc = "invoke"]
          ELSE /\ sparseIndices' = 0
               /\ th' = [th EXCEPT ![t] = endOfLoop(t, th[t])]
    /\ threadStep

\* func(getBySparseIndex(sparseIndices[I], entity)): reads the static array
ThreadInvoke(t) ==
    /\ th[t].pc = "invoke"
    /\ LET entity == th[t].pool.dense[th[t].k]
           arg == IF sparseIndices < Len(th[t].pool.packed)
                  THEN At(th[t].pool.packed, sparseIndices)
                  ELSE Garbage
       IN th' = [th EXCEPT ![t] = endOfLoop(t, [th[t] EXCEPT !.calls =
                                     Append(@, [entity |-> entity, arg |-> arg])])]
    /\ UNCHANGED sparseIndices
    /\ threadStep

\* ---------------------------------------------------------------- specifications
\* the registry used within its contract, no group
NextRegistry == Create \/ Destroy \/ Add \/ RemoveComponent \/ Each
SpecRegistry == Init /\ [][NextRegistry]_vars

\* ... and with destroy called on handles that are not live
NextAnyDestroy == Create \/ Destroy \/ DestroyNotLive \/ Add \/ RemoveComponent
SpecAnyDestroy == Init /\ [][NextAnyDestroy]_vars

\* the registry with a group over GroupTypes, components added and removed
NextGroupAddRemove == Create \/ Add \/ RemoveComponent \/ GroupCreate \/ GroupDestroy
SpecGroupAddRemove == Init /\ [][NextGroupAddRemove]_vars

\* ... and with entities destroyed and the registry cleared
NextGroup == Create \/ Destroy \/ Add \/ RemoveComponent \/ Clear \/ GroupCreate \/ GroupDestroy
SpecGroup == Init /\ [][NextGroup]_vars

\* the thread pool: one submitting thread, NumWorkers worker threads
NextJobs ==
    \/ CreateJob \/ AddChild \/ SubmitJob \/ SubmitPlain
    \/ WaitCall \/ WaitListEmpty \/ WaitReturn
    \/ Take \/ Finish \/ Child \/ Push \/ Delete
SpecJobs == Init /\ [][NextJobs]_vars

\* workers and the waiting thread are scheduled fairly
FairSpecJobs ==
    /\ SpecJobs
    /\ \A w \in Workers :
           /\ WF_vars(WorkerTake(w)) /\ WF_vars(WorkerFinish(w)) /\ WF_vars(WorkerChild(w))
           /\ WF_vars(WorkerPush(w)) /\ WF_vars(WorkerDelete(w))
    /\ WF_vars(WaitListEmpty) /\ WF_vars(WaitReturn)

\* the thread pool with stop() and restart() in place of wait()
NextStop ==
    \/ CreateJob \/ AddChild \/ SubmitJob \/ SubmitPlain
    \/ StopCall \/ StopListEmpty \/ StopReturn \/ Restart
    \/ Take \/ Finish \/ Child \/ Push \/ Delete \/ Exit
SpecStop == Init /\ [][NextStop]_vars

\* the thread pool with wait(), and with stop() and restart() called once
NextRestart ==
    \/ CreateJob \/ AddChild \/ SubmitJob \/ SubmitPlain
    \/ (restarts.n = 0 /\ StopCall) \/ StopListEmpty \/ StopReturn \/ RestartNoted
    \/ WaitCall \/ WaitListEmpty \/ WaitReturn
    \/ Take \/ Finish \/ Child \/ Push \/ Delete \/ Exit
SpecRestart == Init /\ [][NextRestart]_vars

\* ... with plain callables submitted only
NextRestartPlain ==
    \/ SubmitPlain
    \/ (restarts.n = 0 /\ StopCall) \/ StopListEmpty \/ StopReturn \/ RestartNoted
    \/ WaitCall \/ WaitListEmpty \/ WaitReturn
    \/ Take \/ Finish \/ Delete \/ Exit
SpecRestartPlain == Init /\ [][NextRestartPlain]_vars

\* ... and with workers and the waiting thread scheduled fairly
FairSpecRestartPlain ==
    /\ SpecRestartPlain
    /\ \A w \in Workers :
           /\ WF_vars(WorkerTake(w)) /\ WF_vars(WorkerFinish(w)) /\ WF_vars(WorkerDelete(w))
    /\ WF_vars(WaitListEmpty) /\ WF_vars(WaitReturn)

\* plain callables submitted, stop() called on the running and on the stopped pool
NextStopAgain ==
    \/ SubmitPlain
    \/ StopCall \/ StopCallStopped \/ StopListEmpty \/ StopReturn
    \/ Take \/ Finish \/ Delete \/ Exit
SpecStopAgain == Init /\ [][NextStopAgain]_vars

\* ... with the workers and the thread inside stop() scheduled fairly
FairSpecStopAgain ==
    /\ SpecStopAgain
    /\ \A w \in Workers :
           /\ WF_vars(WorkerTake(w)) /\ WF_vars(WorkerFinish(w)) /\ WF_vars(WorkerDelete(w))
           /\ WF_vars(WorkerExit(w))
    /\ WF_vars(StopListEmpty) /\ WF_vars(StopReturn)

\* parallelFor and its variants called on the pool, one call after the other
NextParallel ==
    \/ PfCall \/ PfSubmit \/ PfWait \/ WaitListEmpty \/ WaitReturn
    \/ Take \/ Finish \/ Delete
SpecParallel == Init /\ [][NextParallel]_vars

\* the TLSF allocator on one buffer
NextTlsf == TlsfAllocate \/ TlsfDeallocate
SpecTlsf == Init /\ [][NextTlsf]_vars

\* allocate with requests of nearly equal sizes, and deallocate
NextTlsfNear == TlsfAllocateNear \/ TlsfDeallocate
SpecTlsfNear == Init /\ [][NextTlsfNear]_vars

\* the registry with pools sorted, and a group created and destroyed
NextSort == Create \/ Destroy \/ Add \/ RemoveComponent \/ Sort \/ GroupCreate \/ GroupDestroy
SpecSort == Init /\ [][NextSort]_vars

\* the registry with add<T> also called for entities that already have T
NextAddAgain == Create \/ Destroy \/ Add \/ AddAgain \/ RemoveComponent
SpecAddAgain == Init /\ [][NextAddAgain]_vars

\* the registry with swap called on its pools
\* the registry with a group, every remove followed up
NextRemove ==
    Create \/ Destroy \/ Add \/ RemoveComponentNoted \/ GroupCreate \/ GroupDestroy
SpecRemove == Init /\ [][NextRemove]_vars

\* the registry with views whose each names target types
NextEachTarget == Create \/ Destroy \/ Add \/ RemoveComponent \/ EachTarget
SpecEachTarget == Init /\ [][NextEachTarget]_vars

NextSwap == Create \/ Destroy \/ Add \/ RemoveComponent \/ Swap
SpecSwap == Init /\ [][NextSwap]_vars

\* ... through references to ISparseSet
NextSwapThroughBase == Create \/ Destroy \/ Add \/ RemoveComponent \/ SwapThroughBase
SpecSwapThroughBase == Init /\ [][NextSwapThroughBase]_vars

\* the registry with get<T> called for any handle
NextGet == Create \/ Destroy \/ Add \/ RemoveComponent \/ Get \/ Throws
SpecGet == Init /\ [][NextGet]_vars

\* the registry with group requests that are granted and that are refused
NextGroupRequest ==
    Create \/ Add \/ RemoveComponent \/ GroupCreate \/ GroupDestroy \/ GroupRejected
SpecGroupRequest == Init /\ [][NextGroupRequest]_vars

NextArena == ArenaConstruct \/ ArenaAllocate \/ ArenaReset
SpecArena == Init /\ [][NextArena]_vars

\* two threads, each iterating a view over its own registry
NextThreads ==
    \E t \in Threads : ThreadAdd(t) \/ ThreadEach(t) \/ ThreadTest(t) \/ ThreadInvoke(t)
SpecThreads == Init /\ [][NextThreads]_vars

\* the state machine: init, then updates and transitions
NextApplication == ApplicationInit \/ ApplicationUpdate \/ ApplicationChangeState
SpecApplication == Init /\ [][NextApplication]_vars

\* ---------------------------------------------------------------- registry claims
\* Registry::contains<T> and Registry::get<T>
RegistryContains(T, e) == pools[T].exists /\ Contains(pools[T], e)
RegistryGet(T, e) == Subscript(pools[T], e)

Has(T, e) == comp[T][e] # NoValue
HasAll(S, e) == \A T \in S : Has(T, e)

\* C1: in every state reached by create, add to a live entity without T, remove and
\* destroy (no group, no sort), in every pool dense_entities and packed have equal
\* length, sparse[index(dense_entities[i])] = i for every position i, contains<T>(E)
\* holds exactly when E is at some dense position i, and then get<T>(E) is packed[i],
\* the value last stored for E.
C1_PoolCoherent ==
    \A T \in Types :
        LET p == pools[T]
        IN /\ Len(p.dense) = Len(p.packed)
           /\ \A i \in Positions(p) :
                  /\ getEntityIndex(At(p.dense, i)) < Len(p.sparse)
                  /\ At(p.sparse, getEntityIndex(At(p.dense, i))) = i
           /\ \A e \in Handles :
                  RegistryContains(T, e) <=> \E i \in Positions(p) : At(p.dense, i) = e
           /\ \A e \in Handles : \A i \in Positions(p) :
                  At(p.dense, i) = e =>
                      /\ RegistryGet(T, e) = At(p.packed, i)
                      /\ comp[T][e] = {At(p.packed, i)}

\* a component was removed from a pool that held two, the other one is still bound
C1_Witness ==
    /\ lastOp = "remove"
    /\ destroyed = {}
    /\ \E T \in Types :
           /\ Len(pools[T].dense) = 1
           /\ Len(pools[T].sparse) = 2
           /\ \E e \in live : RegistryContains(T, e) /\ comp[T][e] = {2}

\* C2: a handle that was destroyed while live is contained in no pool in any later
\* state, also once its index has been recycled and the new handle has components.
C2_DestroyedNeverContained ==
    \A e \in destroyed : \A T \in Types : ~RegistryContains(T, e)

\* a destroyed handle whose index was recycled, the recycled handle having a component
C2_Witness ==
    \E e \in destroyed : \E T \in Types :
        /\ spinEntitySlot(e) \in live
        /\ RegistryContains(T, spinEntitySlot(e))

\* C3: every handle create() returns differs from every handle live at that moment
\* and from every handle create() returned earlier, whatever handles destroy was given.
C3_CreateReturnsFreshHandle ==
    [][lastOp' = "create" /\ ops' # ops => ret' \cap (live \cup returned) = {}]_vars

GroupSet == Range(GroupTypes)
Prefix(T) == {At(pools[T].dense, i) : i \in 0 .. (group.size - 1)}

\* C4: while a group is alive, after any adds and removes, every position below
\* group_size holds the same entity in every pool of the group, and the entities in
\* those positions are exactly the entities that have every component of the group.
C4_GroupPrefixIsIntersection ==
    group.alive =>
        /\ \A T \in GroupSet : group.size <= Len(pools[T].dense)
        /\ \A T \in GroupSet : \A i \in 0 .. (group.size - 1) :
               i < Len(pools[T].dense) =>
                   At(pools[T].dense, i) = At(pools[GroupTypes[1]].dense, i)
        /\ (\A T \in GroupSet : group.size <= Len(pools[T].dense)) =>
               Prefix(GroupTypes[1]) = {e \in Handles : HasAll(GroupSet, e)}

\* C5: in every state with a live group, also after destroy and clear, group_size is
\* at most the size of every pool of the group and the positions below group_size
\* hold the same entity in every pool of the group.
C5_GroupSizeWithinPools ==
    group.alive =>
        \A T \in GroupSet :
            /\ group.size <= Len(pools[T].dense)
            /\ \A i \in 0 .. (group.size - 1) :
                   i < Len(pools[GroupTypes[1]].dense) /\ i < Len(pools[T].dense) =>
                       At(pools[T].dense, i) = At(pools[GroupTypes[1]].dense, i)

Count(q, e) == Cardinality({k \in 1 .. Len(q) : q[k].entity = e})

\* C6: view.each over included types I and excluded types X invokes the callback
\* exactly once for every entity that has all of I and none of X, and for no other.
C6_ViewVisitsExactlyMatching ==
    lastOp = "each" =>
        \A e \in Handles :
            Count(visited, e) =
                IF HasAll(Range(viewI), e) /\ (\A T \in viewX : ~Has(T, e)) THEN 1 ELSE 0

\* a view with an exclusion visited one entity and skipped one that has an excluded type
C6_Witness ==
    /\ lastOp = "each"
    /\ Len(visited) = 1
    /\ \E e \in live : HasAll(Range(viewI), e) /\ (\E T \in viewX : Has(T, e))

\* ---------------------------------------------------------------- job system claims
Running(w) == wk[w].pc = "run"

\* C7: when wait() returns every submitted callable has been invoked exactly once, and
\* at no moment is one callable executed by two workers.
C7_EachCallableOnceAtWaitReturn ==
    /\ \A j \in JobIds : execs[j] <= 1
    /\ \A w1 \in Workers, w2 \in Workers :
           (w1 # w2 /\ Running(w1) /\ Running(w2)) => wk[w1].pJob # wk[w2].pJob
    /\ lastEvent = "waitReturn" => \A j \in owed : execs[j] = 1

\* C8: a child job's callable starts only after the callable of every one of its
\* parents has returned, also when the parents are submitted by separate submit calls.
C8_ChildStartsAfterParents ==
    \A j \in started : \A p \in parents[j] : execs[p] >= 1

C8_Witness ==
    \E j \in started : Cardinality(parents[j]) >= 2

\* C9: wait() returns only when the ready list is empty and every job submitted before
\* the call, with every job depending on those, has finished executing.
C9_WaitReturnsOnlyWhenAllFinished ==
    lastEvent = "waitReturn" => (mpJobHead = NULL /\ \A j \in owed : execs[j] >= 1)

\* C10: with fairly scheduled workers, every callable terminating and every parent of
\* every child submitted, a call to wait() eventually returns.
C10_WaitEventuallyReturns ==
    (mainPc = "waitList") ~> (mainPc = "idle")

\* C11: after stop() on a running pool every job in the ready list at that moment and
\* every job that becomes ready afterwards is executed to completion; a worker exits
\* only with the stop flag set and the ready list empty; stop() returns only after all
\* workers have exited.
C11_StopDrainsReadyJobs ==
    /\ lastEvent = "exit" => (mStop /\ mpJobHead = NULL)
    /\ lastEvent = "stopReturn" =>
           /\ \A w \in Workers : Exited(w)
           /\ \A j \in owed : execs[j] = 1
           /\ \A a \in Addr :
                  (heap[a].alloc /\ ~heap[a].held) => heap[a].dependencyCount > 0

C11_Witness ==
    /\ lastEvent = "stopReturn"
    /\ \E j \in owed : \E c \in JobIds : j \in parents[c] /\ execs[c] = 1

\* ---------------------------------------------------------------- allocator claims
SingleFreeBlock(t) ==
    /\ PhysBlocks(t) = {0}
    /\ t.hdr[0].size = mMaxSize
    /\ ~t.hdr[0].used

\* C12: after allocate / deallocate calls on a fresh TLSF allocator in which every
\* allocate returned non-null, once every returned pointer has been deallocated the
\* arena is one free block again and allocate can satisfy the capacity minus the block
\* overhead.
C12_TotalReclaim ==
    (tLast.op = "deallocate" /\ tLive = {} /\ ~tFailed) =>
        /\ ~tl.fault
        /\ SingleFreeBlock(tl)
        /\ allocate(tl, mMaxSize).ret # Nil

C12_Witness ==
    /\ tLast.op = "deallocate" /\ tLive = {} /\ ~tFailed /\ ~tl.fault
    /\ Cardinality(tFreed) >= 3

\* the free blocks of the buffer whose memory holds n bytes
FreeBlocksFor(t, n) ==
    {b \in PhysBlocks(t) : ~t.hdr[b].used /\ t.hdr[b].size >= n}

\* C13: in every state reached by allocate / deallocate calls, allocate(n) returns
\* null only when no free block of the arena is large enough for n.  "Large enough" is
\* read in favour of the code: the free block holds n bytes and also the header, the
\* end tag and MinSize bytes of a split remainder, and only a call that returns
\* nullptr counts (not one that leaves the buffer or mBlockArray).
C13_NullOnlyWhenExhausted ==
    ~tl.fault =>
        \A n \in TlsfSizes :
            FreeBlocksFor(tl, n + Overhead + MinSize) # {} =>
                (allocate(tl, n).ret # Nil \/ allocate(tl, n).t.fault)

\* pairs of blocks deallocated since the last allocate that lay side by side
AdjacentFreed ==
    {ab \in tFreed \X tFreed : ab[2].addr = ab[1].addr + Overhead + ab[1].size}

\* a free block of the buffer that spans both blocks of the pair
MergedBlock(t, ab) ==
    \E c \in PhysBlocks(t) :
        /\ ~t.hdr[c].used
        /\ c <= ab[1].addr
        /\ NextBlock(t, c) >= ab[2].addr + Overhead + ab[2].size

\* C14: when two physically adjacent allocated blocks have both been deallocated, in
\* either order, they are merged into one free block, and a following allocate of
\* their combined payload size succeeds.
C14_AdjacentBlocksMerge ==
    \A ab \in AdjacentFreed :
        /\ ~tl.fault
        /\ MergedBlock(tl, ab)
        /\ allocate(tl, ab[1].size + ab[2].size).ret # Nil
        /\ ~allocate(tl, ab[1].size + ab[2].size).t.fault

C14_Witness ==
    /\ ~tl.fault
    /\ \E ab \in AdjacentFreed :
           /\ MergedBlock(tl, ab)
           /\ allocate(tl, ab[1].size + ab[2].size).ret # Nil

\* ---------------------------------------------------------------- arena claims
\* C15: whatever was allocated since construction, reset() followed by a single
\* allocate(n) returns the address the first allocate(n) after construction returned
\* (histories in which an operator new failed are left out).
C15_ResetReusesFirstAddress ==
    (/\ aLast.op = "allocate"
     /\ aResets >= 1
     /\ Len(aHist) = 1
     /\ ~aOom
     /\ \E f \in aFirst : f.n = aLast.n)
        => \A f \in aFirst : aRet = f.addr

\* C16: replaying after reset() the sequence of allocations made before it is served
\* from the blocks the chain already has: the chain is as long after the replay as it
\* was when reset() was called (histories in which an operator new failed are left out).
C16_ReplayKeepsChainLength ==
    (/\ aResets >= 1
     /\ aHist # <<>>
     /\ aHist = aPrevHist
     /\ ~aOom)
        => Len(ar.chain) = aBlocksAtReset

C18_CreateRecyclesFront ==
    [][/\ (lastOp' = "create" /\ ops' # ops) =>
              IF mFreedEntities # <<>>
              THEN /\ ret' = {[gen |-> Head(mFreedEntities).gen + 1,
                               idx |-> Head(mFreedEntities).idx]}
                   /\ mFreedEntities' = Tail(mFreedEntities)
                   /\ mNextEntity' = mNextEntity
              ELSE /\ ret' = {[gen |-> 0, idx |-> mNextEntity]}
                   /\ mNextEntity' = mNextEntity + 1
                   /\ mFreedEntities' = <<>>
       /\ (lastOp' = "destroy" /\ ops' # ops /\ ~ub') =>
              \E e \in live : /\ live' = live \ {e}
                              /\ mFreedEntities' = Append(mFreedEntities, e)]_vars

\* a create() that recycled the front of a queue of two handles and left the other one
C18_Witness ==
    /\ lastOp = "create"
    /\ \E e \in ret : e.gen = 1 /\ e \in live
    /\ Len(mFreedEntities) = 1
    /\ \A e \in ret : mFreedEntities[1].idx # e.idx

Ordered(v, cmp) == \A i, j \in 1 .. Len(v) : i < j => ~predicate(cmp, v[j], v[i])

\* C19: sort<T>(cmp) on an existing pool that no live group references returns true;
\* afterwards the values of the pool are in an order consistent with cmp (no value is
\* followed by one that cmp puts before it) and the pool, coherent before the call,
\* still has sparse[index(dense_entities[i])] = i for every position i.
C19_SortOrdersPool ==
    [][(/\ lastOp' = "sort" /\ ops' # ops
        /\ pools[lastSort'.T].exists
        /\ ~Watched(lastSort'.T)
        /\ Coherent(pools[lastSort'.T]))
           => /\ lastSort'.ok
              /\ ~ub'
              /\ Ordered(pools'[lastSort'.T].packed, lastSort'.cmp)
              /\ Coherent(pools'[lastSort'.T])]_vars

\* a sort that returned true on a pool of two components that were not in order: the
\* value stored for the entity at position 0 is now at position 1
C19_Witness ==
    /\ lastOp = "sort" /\ lastSort.ok
    /\ Len(pools[lastSort.T].packed) = 2
    /\ \E e \in live : comp[lastSort.T][e] = {At(pools[lastSort.T].packed, 1)}
                        /\ At(pools[lastSort.T].sparse, getEntityIndex(e)) = 0
    /\ At(pools[lastSort.T].packed, 0) # At(pools[lastSort.T].packed, 1)

\* C20: packed[i] belongs to dense_entities[i] also across sort: for every entity E of
\* the pool get<T>(E) returns the same value after sort<T> as before it, and the set of
\* entities in the pool is unchanged.
C20_SortKeepsBinding ==
    [][(lastOp' = "sort" /\ ops' # ops /\ lastSort'.ok) =>
           \A e \in Handles :
               /\ Contains(pools'[lastSort'.T], e) <=> Contains(pools[lastSort'.T], e)
               /\ Contains(pools[lastSort'.T], e) =>
                      Subscript(pools'[lastSort'.T], e) = Subscript(pools[lastSort'.T], e)]_vars

\* C21: sort<T> returns false and leaves the pool's dense order, sparse array and
\* component values unchanged whenever T is watched by a live group.
C21_SortRejectedWhenWatched ==
    [][(lastOp' = "sort" /\ ops' # ops /\ Watched(lastSort'.T))
           => (~lastSort'.ok /\ pools' = pools /\ ~ub')]_vars

\* a rejected sort of a watched pool whose two values are not in the order asked for
C21_Witness ==
    /\ lastOp = "sort" /\ ~lastSort.ok
    /\ lastSort.T # "" /\ Watched(lastSort.T)
    /\ Len(pools[lastSort.T].packed) = 2
    /\ ~Ordered(pools[lastSort.T].packed, lastSort.cmp)

\* the dense order, sparse array and component values of every pool
PoolOrders(ps) == [T \in Types |-> <<ps[T].dense, ps[T].sparse, ps[T].packed>>]

\* C22: a group<...>() request naming a type watched by a live group returns an empty
\* optional and leaves the group's registration, its size and the pool orders
\* unchanged, so no second group is ever made over a watched type.
C22_GroupRequestRejected ==
    [][(ops' # ops /\ group.alive /\ lastOp' \in {"group", "nullopt"})
           => /\ lastOp' = "nullopt"
              /\ group' = group
              /\ PoolOrders(pools') = PoolOrders(pools)
              /\ ~ub']_vars

\* a refused request while the live group holds an entity and the third pool is new
C22_Witness ==
    /\ lastOp = "nullopt"
    /\ group.alive /\ group.size >= 1
    /\ pools["C"].exists /\ Len(pools["A"].dense) = 2

\* the call is remove<T>(E) made right after add<T>(E) and it has returned
RemoveAfterAdd ==
    /\ lastOp = "add" /\ lastOp' = "remove" /\ ops' # ops /\ ~ub'
    /\ lastAdd' = lastAdd

\* the pools other than T are as they were before add<T>
OthersUnmodified(T, before, after) ==
    \A U \in Types \ {T} : PoolOrders(after)[U] = PoolOrders(before)[U]

\* C23 as stated: add<T>(E) immediately followed by remove<T>(E) returns size<T>() to
\* its prior value and leaves every other pool's dense order, sparse entries and
\* component values as before the add, also when a live group watches T.
C23_AddRemoveRestores ==
    [][RemoveAfterAdd =>
           /\ Len(pools'[lastAdd.T].dense) = Len(lastAdd.pools[lastAdd.T].dense)
           /\ OthersUnmodified(lastAdd.T, lastAdd.pools, pools')]_vars

\* C23 as it holds: add<T>(E) immediately followed by remove<T>(E) returns size<T>()
\* to its prior value, and leaves every other pool as before the add when no live
\* group watches T.
C23_AddRemoveRestoresUnwatched ==
    [][RemoveAfterAdd =>
           /\ Len(pools'[lastAdd.T].dense) = Len(lastAdd.pools[lastAdd.T].dense)
           /\ ~Watched(lastAdd.T) => OthersUnmodified(lastAdd.T, lastAdd.pools, pools')]_vars

\* add<T>(E) and remove<T>(E) have been made in a row on a pool that held another
\* entity and that no group watches, while another pool holds two entities
C23_Witness ==
    /\ lastOp = "remove" /\ lastAdd.T # "" /\ ~ub
    /\ ~Watched(lastAdd.T)
    /\ Len(pools[lastAdd.T].dense) = 1
    /\ \E U \in Types \ {lastAdd.T} : Len(pools[U].dense) = 2

\* C24: after any operations, add<T>(E) on an entity that already has T included, no
\* entity occurs twice in dense_entities and size<T>() is the number of entities E
\* for which contains<T>(E) is true.
C24_OneComponentPerEntity ==
    ~ub => \A T \in Types :
        /\ \A i, j \in 1 .. Len(pools[T].dense) :
               pools[T].dense[i] = pools[T].dense[j] => i = j
        /\ (\A e \in Handles : ~Faulty(pools[T], e)) =>
               Len(pools[T].dense) = Cardinality({e \in Handles : RegistryContains(T, e)})

\* C25: get<T>(E) for an entity E that does not currently have T (no pool for T, E
\* never given T, T removed from E, or E a stale handle) raises an error (exception or
\* debug abort) instead of returning a reference.
C25_GetWithoutComponentRaises ==
    (lastOp = "get" /\ ~(lastGet.entity \in live /\ Has(lastGet.T, lastGet.entity)))
        => lastGet.result \in {"throw", "abort"}

\* C26: after any sequence of create() and destroy() calls activeEntityNum() is the
\* number of entities created and not destroyed; a destroy of a handle that is not
\* live does not change it.
C26_ActiveEntityNumCountsLive ==
    ~ub => activeEntityNum = Cardinality(live)

\* ---------------------------------------------------------------- parallel loop claims
\* the number of calls f(arg) that have returned, over the jobs of the current call
RECURSIVE InvokedIn(_, _)
InvokedIn(n, arg) ==
    IF n = 0 THEN 0
    ELSE InvokedIn(n - 1, arg)
           + execs[pf.jobs[n].id]
             * Cardinality({k \in 1 .. Len(pf.jobs[n].calls) : pf.jobs[n].calls[k] = arg})
Invoked(arg) == InvokedIn(Len(pf.jobs), arg)

\* every argument list a job of the current call passes to f
Passed == UNION {{pf.jobs[n].calls[k] : k \in 1 .. Len(pf.jobs[n].calls)} :
                    n \in 1 .. Len(pf.jobs)}

\* the function called has returned
Returned(fn) == pf.fn = fn /\ pf.pc = "done"

ChunkOf(n) == pf.jobs[n].calls[1]

\* the ranges passed are pairwise disjoint, lie in [start, end), cover it, the first
\* (end - start) mod pool.size() of them being one longer, and each was passed once
ChunksPartition ==
    LET range == pf.end[1] - pf.start[1]
    IN /\ \A n \in 1 .. Len(pf.jobs) :
              /\ Len(pf.jobs[n].calls) = 1 /\ execs[pf.jobs[n].id] = 1
              /\ ChunkOf(n)[1] >= pf.start[1] /\ ChunkOf(n)[2] <= pf.end[1]
              /\ ChunkOf(n)[2] - ChunkOf(n)[1] =
                     range \div PoolSize + (IF n - 1 < range % PoolSize THEN 1 ELSE 0)
       /\ \A x \in pf.start[1] .. (pf.end[1] - 1) :
              Cardinality({n \in 1 .. Len(pf.jobs) :
                              ChunkOf(n)[1] <= x /\ x < ChunkOf(n)[2]}) = 1

\* C28: parallelForChunk(start, end, f, pool) calls f only with non-empty ranges
\* [chunk_start, chunk_end) that are pairwise disjoint and together cover
\* [start, end) exactly, the first (end - start) mod pool.size() chunks being one
\* element longer than the others.
C28_ChunksNonEmptyPartition ==
    Returned("parallelForChunk") =>
        /\ \A n \in 1 .. Len(pf.jobs) : ChunkOf(n)[1] < ChunkOf(n)[2]
        /\ ChunksPartition

\* C28 without the ranges being non-empty
C28_ChunksPartition ==
    Returned("parallelForChunk") => ChunksPartition

\* the points of the rectangle [start.x, end.x) x [start.y, end.y) of the current call
Rectangle ==
    {<<x, y>> : x \in pf.start[1] .. (pf.end[1] - 1), y \in pf.start[2] .. (pf.end[2] - 1)}

\* the points of the rectangle job n passes to f
PointsOf(n) ==
    LET c == pf.jobs[n].calls[1]
    IN {<<x, y>> : x \in c[1][1] .. (c[2][1] - 1), y \in c[1][2] .. (c[2][2] - 1)}

C29_Witness2D ==
    /\ Returned("parallelFor2D")
    /\ pf.start = <<1, 2>> /\ pf.end = <<4, 4>>
    /\ Invoked(<<3, 3>>) = 1

\* ---------------------------------------------------------------- job system claims, continued
\* the jobs submitted after restart()
SubmittedSinceRestart == submitted \ restarts.submitted

\* C30, safety: after stop() followed by restart(), when a following wait() returns
\* every job submitted since the restart has been executed exactly once, and none is
\* ever executed twice.
C30_JobsAfterRestartRunOnce ==
    restarts.n > 0 =>
        /\ \A j \in SubmittedSinceRestart : execs[j] <= 1
        /\ lastEvent = "waitReturn" => \A j \in SubmittedSinceRestart : execs[j] = 1

\* C30, liveness: after stop() followed by restart(), a wait() that is called returns.
C30_WaitAfterRestartReturns ==
    (restarts.n > 0 /\ mainPc = "waitList") ~> (mainPc = "idle")

\* ---------------------------------------------------------------- application claims

\* the last call made a transition (directly or from a State's update())
Changed == appLast.call.op = "changeState"

\* C31, as stated: every changeState(dst, true) leaves the pair that was current in
\* the cache, and every changeState to the key of the cached pair makes the cached
\* instance current again, makes no new instance and empties the cache.
C31_CachedStateRestored ==
    Changed =>
        /\ appLast.call.cache => app.mCache = {appLast.pre.mCurrent}
        /\ \A c \in appLast.pre.mCache :
               appLast.call.dst = c.key =>
                   app.mCurrent = c /\ app.mCache = {} /\ Len(insts) = appLast.n

\* C31, amended: changeState(dst, true) with dst other than the current key leaves
\* the pair that was current in the cache; changeState(dst, false) with dst the key
\* of the cached pair makes the cached instance current again, makes no new
\* instance and empties the cache.
C31_CachedStateRestoredOtherKey ==
    Changed =>
        /\ (appLast.call.cache /\ appLast.call.dst # appLast.pre.mCurrent.key)
               => app.mCache = {appLast.pre.mCurrent}
        /\ \A c \in appLast.pre.mCache :
               (~appLast.call.cache /\ appLast.call.dst = c.key) =>
                   app.mCurrent = c /\ app.mCache = {} /\ Len(insts) = appLast.n

\* a cached instance that had been current and updated has been restored by a
\* transition that was asked not to cache
C31_Witness ==
    /\ Changed
    /\ ~appLast.call.cache
    /\ appLast.pre.mCache # {}
    /\ app.mCurrent \in appLast.pre.mCache
    /\ app.mCurrent # appLast.pre.mCurrent
    /\ insts[app.mCurrent.inst].updates > 0
    /\ app.mCache = {}

\* C40: no State instance has its init() invoked more than once (so a restored
\* instance is not initialised again), and an instance that has had an update()
\* had exactly one init() before its first update().
C40_InitOnceBeforeFirstUpdate ==
    \A i \in 1 .. Len(insts) :
        /\ insts[i].inits <= 1
        /\ insts[i].updates > 0 => insts[i].inits = 1 /\ ~insts[i].early

\* the part of C40 about freshly created instances: init() precedes the first update()
C40_FreshInitBeforeUpdate ==
    \A i \in 1 .. Len(insts) : insts[i].updates > 0 => insts[i].inits >= 1 /\ ~insts[i].early

\* ---------------------------------------------------------------- allocator claims, continued

\* the bytes of the payload and of the header of the block at a
Payload(t, a) == (a + HeaderSize) .. (a + HeaderSize + t.hdr[a].size - 1)
HeaderBytes(a) == a .. (a + HeaderSize - 1)

\* the payload of the block at a lies in the buffer
InsideBuffer(t, a) == a >= 0 /\ a + HeaderSize + t.hdr[a].size <= mAllSize

\* the payloads of the blocks handed out meet neither one another nor a header
NoOverlap(t, liveBlocks) ==
    \A a \in liveBlocks :
        /\ \A b \in liveBlocks \ {a} : Payload(t, a) \cap Payload(t, b) = {}
        /\ \A b \in PhysBlocks(t) : Payload(t, a) \cap HeaderBytes(b) = {}

\* C32: a non-null pointer returned by allocate(n) designates a payload of at least n
\* bytes inside the buffer, and the payloads of the blocks handed out and not yet
\* deallocated overlap neither one another nor a block header.
C32_PayloadHoldsRequest ==
    ~tl.fault =>
        /\ (tLast.op = "allocate" /\ tRet # Nil) =>
               tl.hdr[tRet].size >= tLast.arg /\ InsideBuffer(tl, tRet)
        /\ \A a \in tLive : InsideBuffer(tl, a)
        /\ NoOverlap(tl, tLive)

\* the parts of C32 other than the size of the payload
C32_PayloadsInsideAndDisjoint ==
    ~tl.fault => (\A a \in tLive : InsideBuffer(tl, a)) /\ NoOverlap(tl, tLive)

\* C33: the size tag and the headers of neighbours that a deallocate inspects lie
\* inside the caller's buffer, also when the first or the last block of the arena is
\* deallocated.
C33_NeighboursInsideBuffer ==
    \A r \in tSeen : r.addr >= 0 /\ r.addr + r.len <= mAllSize

\* the part of C33 about the first block: no size tag in front of the buffer is read
C33_NothingReadBeforeBuffer == \A r \in tSeen : r.addr >= 0
\* the part of C33 about the last block: no header behind the buffer is read
C33_NothingReadBehindBuffer == \A r \in tSeen : r.addr + r.len <= mAllSize

\* ---------------------------------------------------------------- registry claims, once more

\* C34: after a get<T>(E) that raised because T has no pool, the registry is as it
\* was: size<T>() returns 0, contains<T>(E) returns false, and add<T>(E, v) is served
\* (none of them raises).
C34_FailedGetLeavesRegistryUnchanged ==
    (lastOp = "get" /\ lastGet.result = "throw" /\ ~pools[lastGet.T].exists) =>
        /\ ~Raises(lastGet.T)
        /\ RegistrySize(lastGet.T) = 0
        /\ ~RegistryContains(lastGet.T, lastGet.entity)

\* after such a get, a call of add<T> or remove<T> has raised
C34_AddRaisedAfterFailedGet == ~(lastOp = "throw" /\ blank # {})

\* ---------------------------------------------------------------- view claims

\* the calls of the callback when the thread iterates its registry alone
CallsAlone(t) ==
    [k \in 1 .. Len(th[t].pool.dense) |->
        [entity |-> th[t].pool.dense[k], arg |-> th[t].pool.packed[k]]]

\* C35: a thread that has iterated a view over its own registry, while another thread
\* iterated a view of the same types over another registry, has had its callback
\* invoked with exactly the entities and component values of its own registry.
C35_ThreadsDoNotInterfere ==
    \A t \in Threads : th[t].pc = "done" => th[t].calls = CallsAlone(t)

\* the entities passed are those of the thread's own registry, in order
C35_OwnEntitiesPassed ==
    \A t \in Threads :
        th[t].pc = "done" =>
            /\ Len(th[t].calls) = Len(th[t].pool.dense)
            /\ \A k \in 1 .. Len(th[t].calls) : th[t].calls[k].entity = th[t].pool.dense[k]

\* ---------------------------------------------------------------- job system claims, once more

\* C36: every call of stop() returns - on a running pool, on a stopped pool, and on a
\* stopped pool to which jobs have been submitted since.
C36_StopReturns == (mainPc = "stopList") ~> (mainPc = "idle")

\* what C36 needs in every state: while stop() is in its loop, the ready list is empty
\* or a worker thread is left to empty it
C36_StopCanLeaveLoop ==
    mainPc = "stopList" => (mpJobHead = NULL \/ \E w \in Workers : ~Exited(w))

\* ---------------------------------------------------------------- sparse set claims

\* both entities of the last swap were in the pool before the call
BothPresent == Contains(lastSwap.pre, lastSwap.left) /\ Contains(lastSwap.pre, lastSwap.right)

\* C37: swap(E1, E2) on a coherent pool with both entities present exchanges their
\* two positions in dense_entities and in packed and leaves
\* sparse[index(dense_entities[i])] = i for every i; with an entity absent it leaves
\* the pool as it was.
C37_SwapKeepsPoolCoherent ==
    lastOp = "swap" =>
        LET p == pools[lastSwap.T]
            a == At(lastSwap.pre.sparse, getEntityIndex(lastSwap.left))
            b == At(lastSwap.pre.sparse, getEntityIndex(lastSwap.right))
        IN IF BothPresent
           THEN /\ ~ub
                /\ p.dense = SwapAt(lastSwap.pre.dense, a, b)
                /\ p.packed = SwapAt(lastSwap.pre.packed, a, b)
                /\ Coherent(p)
           ELSE ~ub /\ p = lastSwap.pre

\* two different entities of the pool have been swapped
C37_Witness ==
    /\ lastOp = "swap" /\ BothPresent /\ lastSwap.left # lastSwap.right
    /\ pools[lastSwap.T].dense # lastSwap.pre.dense

\* the part of C37 about the two dense arrays
C37_DensePositionsExchanged ==
    (lastOp = "swap" /\ BothPresent) =>
        LET p == pools[lastSwap.T]
            a == At(lastSwap.pre.sparse, getEntityIndex(lastSwap.left))
            b == At(lastSwap.pre.sparse, getEntityIndex(lastSwap.right))
        IN /\ p.dense = SwapAt(lastSwap.pre.dense, a, b)
           /\ p.packed = SwapAt(lastSwap.pre.packed, a, b)

\* the part of C37 about absent entities
C37_AbsentIsNoOp ==
    (lastOp = "swap" /\ ~BothPresent) => (~ub /\ pools[lastSwap.T] = lastSwap.pre)

\* the part of C37 about the sparse entries of the two entities
C37_SparseUpdatedForBoth ==
    (lastOp = "swap" /\ BothPresent) => Coherent(pools[lastSwap.T])

\* ---- remove claims ----

\* the four ways in which the entity of the last remove did not have the component
NoPool == ~lastRemove.pools[lastRemove.T].exists

BeyondSparse ==
    /\ ~NoPool
    /\ getEntityIndex(lastRemove.entity) >= Len(lastRemove.pools[lastRemove.T].sparse)

Tombstoned ==
    /\ ~NoPool /\ ~BeyondSparse
    /\ At(lastRemove.pools[lastRemove.T].sparse, getEntityIndex(lastRemove.entity)) = kTombstone

OtherGeneration ==
    LET p == lastRemove.pools[lastRemove.T]
    IN /\ ~NoPool /\ ~BeyondSparse /\ ~Tombstoned
       /\ ~Faulty(p, lastRemove.entity)
       /\ getEntitySlot(At(p.dense, At(p.sparse, getEntityIndex(lastRemove.entity))))
              # getEntitySlot(lastRemove.entity)

Removed == lastOp = "remove" /\ lastRemove # NoRemove

\* C38: remove<T>(E) when E has no T component (T has no pool, E's index is beyond the
\* sparse array, its sparse slot is a tombstone, or the slot is occupied by a handle of
\* another generation) raises no error and changes nothing in any pool or group
C38_RemoveOfAbsentChangesNothing ==
    (Removed /\ (NoPool \/ BeyondSparse \/ Tombstoned \/ OtherGeneration))
        => (~ub /\ pools = lastRemove.pools /\ group = lastRemove.group)

C38_Witness ==
    /\ Removed /\ OtherGeneration /\ Watched(lastRemove.T)
    /\ ~ub /\ pools = lastRemove.pools /\ group = lastRemove.group

C38_WitnessNoPool == Removed /\ NoPool /\ pools = lastRemove.pools

C38_WitnessBeyond == Removed /\ BeyondSparse /\ pools = lastRemove.pools

C38_WitnessTombstone == Removed /\ Tombstoned /\ Watched(lastRemove.T) /\ pools = lastRemove.pools

\* ---- view claims, continued ----

\* C39: view<I...>().each<Target...>(fn) with Target a subset of I invokes fn exactly
\* once for every entity that has all of the view's included types I (not merely the
\* Target types), passing only the Target components, whichever of the view's pools is
\* the smallest
C39_TargetEachVisitsHoldersOfAll ==
    lastOp = "eachTarget" =>
        /\ \A e \in Handles :
               Count(visited, e) = IF HasAll(Range(viewI), e) THEN 1 ELSE 0
        /\ \A k \in 1 .. Len(visited) :
               /\ Len(visited[k].args) = Len(viewT)
               /\ \A j \in 1 .. Len(viewT) :
                      comp[viewT[j]][visited[k].entity] = {visited[k].args[j]}

\* what each<Target...> does: it invokes fn once for every entity that has the target
\* types and the type of the smallest pool, with the target components
C39_TargetEachVisitsHoldersOfTargets ==
    lastOp = "eachTarget" =>
        LET pivot == searchMinSizeSparseSet(pools, viewI, 2, Len(pools[viewI[1]].dense),
                                            viewI[1])
        IN /\ \A e \in Handles :
                  Count(visited, e) =
                      IF HasAll(Range(viewT) \cup {pivot}, e) THEN 1 ELSE 0
           /\ \A k \in 1 .. Len(visited) :
                  /\ Len(visited[k].args) = Len(viewT)
                  /\ \A j \in 1 .. Len(viewT) :
                         comp[viewT[j]][visited[k].entity] = {visited[k].args[j]}

\* an entity without one of the view's types was passed to fn
C39_Reached ==
    /\ lastOp = "eachTarget"
    /\ \E k \in 1 .. Len(visited) : ~HasAll(Range(viewI), visited[k].entity)

====
